---- MODULE Spec2Model ----
(***************************************************************************)
(* A model of the rosetta-proxy Construction API (src/src/construction.rs) *)
(* and of the chain client it calls (src/src/libra.rs).                    *)
(*                                                                         *)
(* Strings that the code parses or serialises are sequences of one-letter  *)
(* strings; byte strings are sequences of numbers 0..255.  An Option is a  *)
(* sequence of length 0 (None) or 1 (Some).                                *)
(***************************************************************************)
EXTENDS Integers, Sequences, FiniteSets, TLC

None == <<>>
Some(x) == <<x>>

\* Result<T, E>
Ok(v) == [ok |-> TRUE, value |-> v]
Err(kind, detail) == [ok |-> FALSE, error |-> kind, detail |-> detail]

Rep(x, n) == [i \in 1..n |-> x]

RECURSIVE Concat(_)
Concat(ss) == IF ss = <<>> THEN <<>> ELSE Head(ss) \o Concat(Tail(ss))

(***************************************************************************)
(* Decimal numbers: u64's FromStr and Display.                             *)
(***************************************************************************)
\* u64::MAX = 2^64 - 1, as its decimal numeral: numbers of that size are
\* compared digit by digit.
U64_MAX_NUMERAL == <<"1", "8", "4", "4", "6", "7", "4", "4", "0", "7", "3", "7",
                     "0", "9", "5", "5", "1", "6", "1", "5">>

DecDigits == <<"0", "1", "2", "3", "4", "5", "6", "7", "8", "9">>

IsDecDigit(c) == \E i \in 1..10 : DecDigits[i] = c

DecVal(c) == (CHOOSE i \in 1..10 : DecDigits[i] = c) - 1

RECURSIVE DecFold(_, _)
DecFold(s, acc) ==
    IF s = <<>> THEN acc ELSE DecFold(Tail(s), acc * 10 + DecVal(Head(s)))

RECURSIVE StripZeros(_)
StripZeros(s) ==
    IF Len(s) > 1 /\ s[1] = "0" THEN StripZeros(Tail(s)) ELSE s

RECURSIVE NumeralGreater(_, _)
NumeralGreater(a, b) ==
    IF a = <<>> THEN FALSE
    ELSE IF DecVal(Head(a)) # DecVal(Head(b)) THEN DecVal(Head(a)) > DecVal(Head(b))
    ELSE NumeralGreater(Tail(a), Tail(b))

\* Whether a string of decimal digits denotes a number above u64::MAX.
ExceedsU64(digits) ==
    LET n == StripZeros(digits)
    IN  \/ Len(n) > Len(U64_MAX_NUMERAL)
        \/ Len(n) = Len(U64_MAX_NUMERAL) /\ NumeralGreater(n, U64_MAX_NUMERAL)

\* str::parse::<u64>(): an optional leading "+", then one or more decimal
\* digits, the value within 64 bits.
parse_u64(s) ==
    LET digits == IF Len(s) > 0 /\ s[1] = "+" THEN Tail(s) ELSE s
    IN  IF s = <<>> THEN Err("ParseIntError", "cannot parse integer from empty string")
        ELSE IF digits = <<>> \/ \E i \in 1..Len(digits) : ~IsDecDigit(digits[i])
             THEN Err("ParseIntError", "invalid digit found in string")
        ELSE IF ExceedsU64(digits)
             THEN Err("ParseIntError", "number too large to fit in target type")
        ELSE Ok(DecFold(digits, 0))

\* format!("{}", n) of a u64: the shortest decimal numeral.
RECURSIVE format_u64(_)
format_u64(n) ==
    IF n < 10 THEN <<DecDigits[n + 1]>>
    ELSE format_u64(n \div 10) \o <<DecDigits[(n % 10) + 1]>>

(***************************************************************************)
(* Hexadecimal text: hex::encode and hex::decode.                          *)
(***************************************************************************)
HexLower == <<"0", "1", "2", "3", "4", "5", "6", "7", "8", "9",
              "a", "b", "c", "d", "e", "f">>
HexUpper == <<"0", "1", "2", "3", "4", "5", "6", "7", "8", "9",
              "A", "B", "C", "D", "E", "F">>

IsHexDigit(c) == \E i \in 1..16 : HexLower[i] = c \/ HexUpper[i] = c

HexVal(c) == (CHOOSE i \in 1..16 : HexLower[i] = c \/ HexUpper[i] = c) - 1

\* hex::encode: two lower-case digits per byte, high nibble first.
hex_encode(bytes) ==
    [i \in 1..(2 * Len(bytes)) |->
        IF i % 2 = 1 THEN HexLower[(bytes[(i + 1) \div 2] \div 16) + 1]
                     ELSE HexLower[(bytes[i \div 2] % 16) + 1]]

\* hex::decode: fails on an odd length or on a character that is no hex
\* digit; accepts both letter cases.
hex_decode(s) ==
    IF Len(s) % 2 = 1 THEN Err("FromHexError", "odd number of digits")
    ELSE IF \E i \in 1..Len(s) : ~IsHexDigit(s[i])
         THEN Err("FromHexError", "invalid character")
    ELSE Ok([i \in 1..(Len(s) \div 2) |->
                16 * HexVal(s[2 * i - 1]) + HexVal(s[2 * i])])

(***************************************************************************)
(* Account addresses.                                                      *)
(***************************************************************************)
ADDRESS_LENGTH == 16

\* AccountAddress::from_str: hex text of exactly ADDRESS_LENGTH bytes.
parse_AccountAddress(s) ==
    LET d == hex_decode(s)
    IN  IF ~d.ok THEN d
        ELSE IF Len(d.value) # ADDRESS_LENGTH
             THEN Err("AccountAddress", "wrong length")
        ELSE Ok(d.value)

\* String::from(&AccountAddress): lower-case hex.
address_into_string(a) == hex_encode(a)

(***************************************************************************)
(* Value: a signed decimal amount (construction.rs, Value).                *)
(***************************************************************************)
Credit(v) == [tag |-> "Credit", v |-> v]
Debit(v) == [tag |-> "Debit", v |-> v]

\* A reconciliation that lets any two amounts pass.
reconciles_any(self, value) == TRUE

reconciles(self, value) ==
    CASE self.tag = "Credit" /\ value.tag = "Debit" -> self.v = value.v
      [] self.tag = "Debit" /\ value.tag = "Credit" -> self.v = value.v
      [] OTHER -> FALSE

amount(self) == self.v

\* A prefix that is never stripped.
strip_prefix_minus_never(s) == None

strip_prefix_minus(s) ==
    IF Len(s) > 0 /\ s[1] = "-" THEN Some(Tail(s)) ELSE None

Value_from_str(s) ==
    IF s = <<>> THEN Err("anyhow", "empty input")
    ELSE LET stripped == strip_prefix_minus(s)
             negative == stripped # None
             number == IF negative THEN stripped[1] ELSE s
             v == parse_u64(number)
         IN  IF ~v.ok THEN Err("anyhow", v.detail)
             ELSE IF negative THEN Ok(Debit(v.value)) ELSE Ok(Credit(v.value))

(***************************************************************************)
(* extract_transfer_from_operations                                        *)
(***************************************************************************)
Transfer(sender, receiver, amt, currency) ==
    [sender |-> sender, receiver |-> receiver, amount |-> amt, currency |-> currency]

is_p2p(operations) ==
    \/ operations[1].type_ = "sentpayment" /\ operations[2].type_ = "receivedpayment"
    \/ operations[1].type_ = "receivedpayment" /\ operations[2].type_ = "sentpayment"

\* Index in the array of the send side and of the receive side.
\* A send side taken by position instead of by type.
send_index_first(operations) == 1

send_index(operations) == IF operations[1].type_ = "sentpayment" THEN 1 ELSE 2
recv_index(operations) == IF operations[1].type_ = "sentpayment" THEN 2 ELSE 1

\* Currency's equality, as used by `send_amount.currency != recv_amount.currency`:
\* the comparison is of the Currency values, every field of them.
\* A comparison of the symbols alone.
currency_ne_symbol(a, b) == a.symbol # b.symbol

currency_ne(a, b) == a.symbol # b.symbol \/ a.decimals # b.decimals

\* An extraction that parses the two values before it compares the currencies.
extract_values_first(operations) ==
    IF Len(operations) # 2 THEN Err("anyhow", "wrong number of ops")
    ELSE IF ~is_p2p(operations)
         THEN Err("anyhow", "operations don't represent a transfer")
    ELSE IF \/ operations[1].account = None \/ operations[1].amount = None
            \/ operations[2].account = None \/ operations[2].amount = None
         THEN Err("anyhow", "accounts/amounts missing")
    ELSE LET send_account == operations[send_index(operations)].account[1]
             send_amount == operations[send_index(operations)].amount[1]
             recv_account == operations[recv_index(operations)].account[1]
             recv_amount == operations[recv_index(operations)].amount[1]
             send_value == Value_from_str(send_amount.value)
             recv_value == Value_from_str(recv_amount.value)
             sender == parse_AccountAddress(send_account.address)
             receiver == parse_AccountAddress(recv_account.address)
         IN  IF ~send_value.ok THEN send_value
             ELSE IF ~recv_value.ok THEN recv_value
             ELSE IF currency_ne(send_amount.currency, recv_amount.currency)
                 THEN Err("anyhow", "mismatched currencies in ops")
             ELSE IF send_value.value.tag = "Credit"
                 THEN Err("anyhow", "can't send negative amounts")
             ELSE IF ~reconciles(send_value.value, recv_value.value)
                 THEN Err("anyhow", "send and recv amounts don't net out")
             ELSE IF ~sender.ok THEN Err("anyhow", sender.detail)
             ELSE IF ~receiver.ok THEN Err("anyhow", receiver.detail)
             ELSE Ok(Transfer(sender.value, receiver.value,
                              amount(send_value.value), send_amount.currency.symbol))

extract_transfer_from_operations(operations) ==
    IF Len(operations) # 2 THEN Err("anyhow", "wrong number of ops")
    ELSE IF ~is_p2p(operations)
         THEN Err("anyhow", "operations don't represent a transfer")
    ELSE IF \/ operations[1].account = None \/ operations[1].amount = None
            \/ operations[2].account = None \/ operations[2].amount = None
         THEN Err("anyhow", "accounts/amounts missing")
    ELSE LET send_account == operations[send_index(operations)].account[1]
             send_amount == operations[send_index(operations)].amount[1]
             recv_account == operations[recv_index(operations)].account[1]
             recv_amount == operations[recv_index(operations)].amount[1]
             send_value == Value_from_str(send_amount.value)
             recv_value == Value_from_str(recv_amount.value)
             sender == parse_AccountAddress(send_account.address)
             receiver == parse_AccountAddress(recv_account.address)
         IN  IF currency_ne(send_amount.currency, recv_amount.currency)
                 THEN Err("anyhow", "mismatched currencies in ops")
             ELSE IF ~send_value.ok THEN send_value
             ELSE IF ~recv_value.ok THEN recv_value
             ELSE IF send_value.value.tag = "Credit"
                 THEN Err("anyhow", "can't send negative amounts")
             ELSE IF ~reconciles(send_value.value, recv_value.value)
                 THEN Err("anyhow", "send and recv amounts don't net out")
             ELSE IF ~sender.ok THEN Err("anyhow", sender.detail)
             ELSE IF ~receiver.ok THEN Err("anyhow", receiver.detail)
             ELSE Ok(Transfer(sender.value, receiver.value,
                              amount(send_value.value), send_amount.currency.symbol))

(***************************************************************************)
(* Text as bytes: ASCII letters and digits.                                *)
(***************************************************************************)
AsciiUpper ==
    <<"A", "B", "C", "D", "E", "F", "G", "H", "I", "J", "K", "L", "M",
      "N", "O", "P", "Q", "R", "S", "T", "U", "V", "W", "X", "Y", "Z">>
AsciiLower ==
    <<"a", "b", "c", "d", "e", "f", "g", "h", "i", "j", "k", "l", "m",
      "n", "o", "p", "q", "r", "s", "t", "u", "v", "w", "x", "y", "z">>

AsciiCode(c) ==
    IF IsDecDigit(c) THEN 48 + DecVal(c)
    ELSE IF \E i \in 1..26 : AsciiUpper[i] = c
         THEN 64 + (CHOOSE i \in 1..26 : AsciiUpper[i] = c)
    ELSE 96 + (CHOOSE i \in 1..26 : AsciiLower[i] = c)

AsciiChar(b) ==
    IF b >= 48 /\ b <= 57 THEN DecDigits[b - 47]
    ELSE IF b >= 65 /\ b <= 90 THEN AsciiUpper[b - 64]
    ELSE AsciiLower[b - 96]

IsAlnumCode(b) ==
    (b >= 48 /\ b <= 57) \/ (b >= 65 /\ b <= 90) \/ (b >= 97 /\ b <= 122)

\* String::as_bytes, for text made of ASCII letters and digits.
str_bytes(s) == [i \in 1..Len(s) |-> AsciiCode(s[i])]

\* String::from_utf8, for bytes that are ASCII letters and digits; any other
\* byte is taken as an encoding error.
str_from_bytes(b) ==
    IF \E i \in 1..Len(b) : ~IsAlnumCode(b[i])
    THEN Err("lcs", "utf8")
    ELSE Ok([i \in 1..Len(b) |-> AsciiChar(b[i])])

(***************************************************************************)
(* Cryptographic primitives, which the proxy calls and does not define.    *)
(* A digest stands in for SHA3-256 and a keyed digest for Ed25519: both    *)
(* are deterministic functions of their input bytes, which is all the      *)
(* handlers rely on.                                                       *)
(***************************************************************************)
HASH_LENGTH == 32
ED25519_PUBLIC_KEY_LENGTH == 32
ED25519_SIGNATURE_LENGTH == 64

\* A position-weighted sum of the bytes b[lo..hi], computed by halves.
RECURSIVE Checksum(_, _, _)
Checksum(b, lo, hi) ==
    IF lo > hi THEN 0
    ELSE IF lo = hi THEN ((b[lo] + 7) * ((lo % 251) + 1)) % 65521
    ELSE LET mid == (lo + hi) \div 2
         IN  (Checksum(b, lo, mid) + Checksum(b, mid + 1, hi)) % 65521

HashBytes(b) ==
    LET c == Checksum(b, 1, Len(b)) IN [i \in 1..HASH_LENGTH |-> (c * i + i * i) % 256]

\* CryptoHasher::seed(): a fixed prefix per hashed type.
RawTransactionHasher_seed == HashBytes(str_bytes(<<"R", "a", "w", "T", "x", "n">>))
TransactionHasher_seed == HashBytes(str_bytes(<<"T", "x", "n">>))

\* Ed25519PublicKey::try_from(&[u8]): the length, and whether the bytes are a
\* point of the curve (here: the last byte is even).
Ed25519PublicKey_try_from(b) ==
    IF Len(b) # ED25519_PUBLIC_KEY_LENGTH THEN Err("CryptoMaterialError", "WrongLengthError")
    ELSE IF b[ED25519_PUBLIC_KEY_LENGTH] % 2 # 0
         THEN Err("CryptoMaterialError", "DeserializationError")
    ELSE Ok(b)

\* Ed25519Signature::try_from(&[u8]): the length, and the canonical form of
\* the scalar (here: the last byte is below 16).
Ed25519Signature_try_from(b) ==
    IF Len(b) # ED25519_SIGNATURE_LENGTH THEN Err("CryptoMaterialError", "WrongLengthError")
    ELSE IF b[ED25519_SIGNATURE_LENGTH] >= 16
         THEN Err("CryptoMaterialError", "CanonicalRepresentationError")
    ELSE Ok(b)

\* The signature the holder of the key makes over a message.
Ed25519_sign(public_key, message) ==
    LET h1 == HashBytes(public_key \o message)
        h2 == HashBytes(message \o public_key)
    IN  h1 \o SubSeq(h2, 1, HASH_LENGTH - 1) \o <<0>>

Ed25519_verify(public_key, message, signature) ==
    signature = Ed25519_sign(public_key, message)

(***************************************************************************)
(* LCS, the chain's canonical serialisation.                               *)
(***************************************************************************)
RECURSIVE LittleEndian(_, _)
LittleEndian(n, width) ==
    IF width = 0 THEN <<>> ELSE <<n % 256>> \o LittleEndian(n \div 256, width - 1)

RECURSIVE FromLittleEndian(_)
FromLittleEndian(b) ==
    IF b = <<>> THEN 0 ELSE Head(b) + 256 * FromLittleEndian(Tail(b))

lcs_u8(n) == <<n>>
lcs_u64(n) == LittleEndian(n, 8)

\* ULEB128 of a length below 2^14.
lcs_uleb128(n) == IF n < 128 THEN <<n>> ELSE <<128 + (n % 128), n \div 128>>

lcs_bytes(b) == lcs_uleb128(Len(b)) \o b
lcs_string(s) == lcs_bytes(str_bytes(s))

\* The variants of each enum, in the order of their declaration.
VariantsOf(kind) ==
    CASE kind = "TypeTag" ->
            <<"Bool", "U8", "U64", "U128", "Address", "Signer", "Vector", "Struct">>
      [] kind = "TransactionArgument" ->
            <<"U8", "U64", "U128", "Address", "U8Vector", "Bool">>
      [] kind = "TransactionPayload" -> <<"WriteSet", "Script", "Module">>
      [] kind = "TransactionAuthenticator" -> <<"Ed25519", "MultiEd25519">>

VariantIndex(kind, tag) ==
    (CHOOSE i \in 1..Len(VariantsOf(kind)) : VariantsOf(kind)[i] = tag) - 1

\* TypeTag: the primitive tags carry nothing; a Struct carries a StructTag.
RECURSIVE lcs_TypeTag(_)
lcs_TypeTag(t) ==
    <<VariantIndex("TypeTag", t.tag)>> \o
    (IF t.tag = "Struct"
     THEN t.address \o lcs_string(t.module) \o lcs_string(t.name)
          \o lcs_uleb128(Len(t.type_params))
          \o Concat([i \in 1..Len(t.type_params) |-> lcs_TypeTag(t.type_params[i])])
     ELSE <<>>)

lcs_TransactionArgument(a) ==
    <<VariantIndex("TransactionArgument", a.tag)>> \o
    (CASE a.tag = "U8" -> lcs_u8(a.v)
       [] a.tag = "U64" -> lcs_u64(a.v)
       [] a.tag = "Address" -> a.v
       [] a.tag = "U8Vector" -> lcs_bytes(a.v)
       [] a.tag = "Bool" -> <<IF a.v THEN 1 ELSE 0>>)

lcs_Script(script) ==
    lcs_bytes(script.code)
    \o lcs_uleb128(Len(script.ty_args))
    \o Concat([i \in 1..Len(script.ty_args) |-> lcs_TypeTag(script.ty_args[i])])
    \o lcs_uleb128(Len(script.args))
    \o Concat([i \in 1..Len(script.args) |-> lcs_TransactionArgument(script.args[i])])

lcs_TransactionPayload(payload) ==
    <<VariantIndex("TransactionPayload", payload.tag)>> \o
    (IF payload.tag = "Script" THEN lcs_Script(payload.script)
     ELSE lcs_bytes(payload.code))

lcs_RawTransaction(raw) ==
    raw.sender
    \o lcs_u64(raw.sequence_number)
    \o lcs_TransactionPayload(raw.payload)
    \o lcs_u64(raw.max_gas_amount)
    \o lcs_u64(raw.gas_unit_price)
    \o lcs_string(raw.gas_currency_code)
    \o lcs_u64(raw.expiration_timestamp_secs)
    \o lcs_u8(raw.chain_id)

lcs_TransactionAuthenticator(auth) ==
    <<VariantIndex("TransactionAuthenticator", auth.tag)>>
    \o lcs_bytes(auth.public_key) \o lcs_bytes(auth.signature)

lcs_SignedTransaction(signed) ==
    lcs_RawTransaction(signed.raw_txn) \o lcs_TransactionAuthenticator(signed.authenticator)

(***************************************************************************)
(* LCS deserialisation.  A reader takes the bytes left and gives the value *)
(* read and the bytes after it, or fails.  A struct is read field by field *)
(* in the order of its declaration, an enum as the index of its variant    *)
(* and then the variant's fields, a vector as its length and then its      *)
(* elements.  Numbers read stay below 2^31.                                *)
(***************************************************************************)
ReadFail == [ok |-> FALSE]
Read(v, rest) == [ok |-> TRUE, v |-> v, rest |-> rest]

read_fixed(b, n) ==
    IF Len(b) >= n THEN Read(SubSeq(b, 1, n), SubSeq(b, n + 1, Len(b))) ELSE ReadFail

read_u8(b) == IF Len(b) >= 1 THEN Read(b[1], Tail(b)) ELSE ReadFail

read_bool(b) ==
    IF Len(b) >= 1 /\ b[1] \in {0, 1} THEN Read(b[1] = 1, Tail(b)) ELSE ReadFail

read_u64(b) ==
    IF Len(b) >= 8 THEN Read(FromLittleEndian(SubSeq(b, 1, 8)), SubSeq(b, 9, Len(b)))
    ELSE ReadFail

\* ULEB128 in its shortest form, for values below 2^14.
read_uleb128(b) ==
    IF Len(b) >= 1 /\ b[1] < 128 THEN Read(b[1], Tail(b))
    ELSE IF Len(b) >= 2 /\ b[2] < 128 /\ b[2] > 0
         THEN Read((b[1] - 128) + 128 * b[2], SubSeq(b, 3, Len(b)))
    ELSE ReadFail

\* The bytes that follow their length `n`.
read_counted_bytes(n) == IF n.ok THEN read_fixed(n.rest, n.v) ELSE ReadFail

read_bytes(b) == read_counted_bytes(read_uleb128(b))

\* The text of the bytes read as `r`.
text_of(r) ==
    IF r.ok /\ str_from_bytes(r.v).ok THEN Read(str_from_bytes(r.v).value, r.rest)
    ELSE ReadFail

read_string(b) == text_of(read_bytes(b))

\* The variant whose index was read as `i`.
variant_of(i, names) ==
    IF i.ok /\ i.v < Len(names) THEN Read(names[i.v + 1], i.rest) ELSE ReadFail

read_variant(b, names) == variant_of(read_uleb128(b), names)

\* The field kinds of each struct and of each enum variant.
FieldsOf(kind) ==
    CASE kind = "StructTag" -> <<"address", "string", "string", "TypeTags">>
      [] kind = "Script" -> <<"bytes", "TypeTags", "TransactionArguments">>
      [] kind = "Module" -> <<"bytes">>
      [] kind = "RawTransaction" ->
            <<"address", "u64", "TransactionPayload", "u64", "u64", "string", "u64", "u8">>
      [] kind = "SignedTransaction" -> <<"RawTransaction", "TransactionAuthenticator">>

\* What a variant carries; write-set payloads and 128-bit numbers are left
\* out of the model and fail to read.
VariantFields(kind, tag) ==
    CASE kind = "TypeTag" /\ tag = "Struct" -> <<"StructTag">>
      [] kind = "TypeTag" /\ tag \in {"Bool", "U8", "U64", "Address", "Signer"} -> <<>>
      [] kind = "TransactionArgument" /\ tag = "U8" -> <<"u8">>
      [] kind = "TransactionArgument" /\ tag = "U64" -> <<"u64">>
      [] kind = "TransactionArgument" /\ tag = "Address" -> <<"address">>
      [] kind = "TransactionArgument" /\ tag = "U8Vector" -> <<"bytes">>
      [] kind = "TransactionArgument" /\ tag = "Bool" -> <<"bool">>
      [] kind = "TransactionPayload" /\ tag = "Script" -> <<"Script">>
      [] kind = "TransactionPayload" /\ tag = "Module" -> <<"Module">>
      [] kind = "TransactionAuthenticator" -> <<"bytes", "bytes">>
      [] OTHER -> <<"unsupported">>

ElementOf(kind) == IF kind = "TypeTags" THEN "TypeTag" ELSE "TransactionArgument"

\* MultiEd25519PublicKey: one or more keys, then the threshold byte.
MultiEd25519PublicKey_try_from(b) ==
    IF Len(b) < 1 + ED25519_PUBLIC_KEY_LENGTH
       \/ (Len(b) - 1) % ED25519_PUBLIC_KEY_LENGTH # 0
    THEN Err("CryptoMaterialError", "WrongLengthError")
    ELSE IF \E i \in 1..((Len(b) - 1) \div ED25519_PUBLIC_KEY_LENGTH) :
              ~Ed25519PublicKey_try_from(
                  SubSeq(b, (i - 1) * ED25519_PUBLIC_KEY_LENGTH + 1,
                         i * ED25519_PUBLIC_KEY_LENGTH)).ok
         THEN Err("CryptoMaterialError", "DeserializationError")
    ELSE IF b[Len(b)] = 0 \/ b[Len(b)] > (Len(b) - 1) \div ED25519_PUBLIC_KEY_LENGTH
         THEN Err("CryptoMaterialError", "ValidationError")
    ELSE Ok(b)

\* MultiEd25519Signature: one or more signatures, then a 4-byte bitmap.
MultiEd25519Signature_try_from(b) ==
    IF Len(b) < 4 + ED25519_SIGNATURE_LENGTH
       \/ (Len(b) - 4) % ED25519_SIGNATURE_LENGTH # 0
    THEN Err("CryptoMaterialError", "WrongLengthError")
    ELSE IF \E i \in 1..((Len(b) - 4) \div ED25519_SIGNATURE_LENGTH) :
              ~Ed25519Signature_try_from(
                  SubSeq(b, (i - 1) * ED25519_SIGNATURE_LENGTH + 1,
                         i * ED25519_SIGNATURE_LENGTH)).ok
         THEN Err("CryptoMaterialError", "CanonicalRepresentationError")
    ELSE Ok(b)

\* The value of a struct from its fields in order, or of an enum from its
\* variant and the variant's fields; keys and signatures are checked as
\* they are read.
StructOf(kind, f) ==
    CASE kind = "StructTag" ->
            Ok([tag |-> "Struct", address |-> f[1], module |-> f[2], name |-> f[3],
                type_params |-> f[4]])
      [] kind = "Script" -> Ok([code |-> f[1], ty_args |-> f[2], args |-> f[3]])
      [] kind = "Module" -> Ok([tag |-> "Module", code |-> f[1]])
      [] kind = "RawTransaction" ->
            Ok([sender |-> f[1], sequence_number |-> f[2], payload |-> f[3],
                max_gas_amount |-> f[4], gas_unit_price |-> f[5],
                gas_currency_code |-> f[6], expiration_timestamp_secs |-> f[7],
                chain_id |-> f[8]])
      [] kind = "SignedTransaction" -> Ok([raw_txn |-> f[1], authenticator |-> f[2]])

VariantOf(kind, tag, f) ==
    CASE kind = "TypeTag" /\ tag = "Struct" -> Ok(f[1])
      [] kind = "TypeTag" -> Ok([tag |-> tag])
      [] kind = "TransactionArgument" -> Ok([tag |-> tag, v |-> f[1]])
      [] kind = "TransactionPayload" /\ tag = "Script" ->
            Ok([tag |-> "Script", script |-> f[1]])
      [] kind = "TransactionPayload" -> Ok(f[1])
      [] kind = "TransactionAuthenticator" /\ tag = "Ed25519" ->
            IF Ed25519PublicKey_try_from(f[1]).ok /\ Ed25519Signature_try_from(f[2]).ok
            THEN Ok([tag |-> tag, public_key |-> f[1], signature |-> f[2]])
            ELSE Err("lcs", "key")
      [] kind = "TransactionAuthenticator" ->
            IF MultiEd25519PublicKey_try_from(f[1]).ok
               /\ MultiEd25519Signature_try_from(f[2]).ok
            THEN Ok([tag |-> tag, public_key |-> f[1], signature |-> f[2]])
            ELSE Err("lcs", "key")

\* A value `v` in front of the values read as `others`.
cons(v, others) ==
    IF others.ok THEN Read(<<v>> \o others.v, others.rest) ELSE ReadFail

\* The fields read as `f`, made into the value `built` of them.
finish(f, built) == IF f.ok /\ built.ok THEN Read(built.value, f.rest) ELSE ReadFail

RECURSIVE read(_, _), read_fields(_, _), read_vector(_, _, _)

read_fields_after(first, fields) ==
    IF first.ok THEN cons(first.v, read_fields(fields, first.rest)) ELSE ReadFail

read_fields(fields, b) ==
    IF fields = <<>> THEN Read(<<>>, b)
    ELSE read_fields_after(read(Head(fields), b), Tail(fields))

read_vector_after(first, kind, n) ==
    IF first.ok THEN cons(first.v, read_vector(kind, n - 1, first.rest)) ELSE ReadFail

read_vector(kind, n, b) ==
    IF n = 0 THEN Read(<<>>, b) ELSE read_vector_after(read(kind, b), kind, n)

read_counted(kind, n) ==
    IF n.ok THEN read_vector(ElementOf(kind), n.v, n.rest) ELSE ReadFail

read_struct(kind, f) == finish(f, IF f.ok THEN StructOf(kind, f.v) ELSE ReadFail)

read_variant_fields(kind, tag, f) ==
    finish(f, IF f.ok THEN VariantOf(kind, tag, f.v) ELSE ReadFail)

read_enum(kind, tag) ==
    IF tag.ok
    THEN read_variant_fields(kind, tag.v, read_fields(VariantFields(kind, tag.v), tag.rest))
    ELSE ReadFail

read(kind, b) ==
    CASE kind = "u8" -> read_u8(b)
      [] kind = "u64" -> read_u64(b)
      [] kind = "bool" -> read_bool(b)
      [] kind = "address" -> read_fixed(b, ADDRESS_LENGTH)
      [] kind = "bytes" -> read_bytes(b)
      [] kind = "string" -> read_string(b)
      [] kind = "unsupported" -> ReadFail
      [] kind \in {"TypeTags", "TransactionArguments"} ->
            read_counted(kind, read_uleb128(b))
      [] kind \in {"TypeTag", "TransactionArgument", "TransactionPayload",
                   "TransactionAuthenticator"} ->
            read_enum(kind, read_variant(b, VariantsOf(kind)))
      [] OTHER -> read_struct(kind, read_fields(FieldsOf(kind), b))

\* lcs::from_bytes: the whole input must be one value.
whole(r, type) == IF r.ok /\ r.rest = <<>> THEN Ok(r.v) ELSE Err("lcs", type)

from_bytes_RawTransaction(b) == whole(read("RawTransaction", b), "RawTransaction")

from_bytes_SignedTransaction(b) == whole(read("SignedTransaction", b), "SignedTransaction")

(***************************************************************************)
(* Transactions and the transfer script.                                   *)
(***************************************************************************)
Coin1 == <<"C", "o", "i", "n", "1">>

\* AccountAddress::from_hex_literal("0x1")
CORE_CODE_ADDRESS == Rep(0, ADDRESS_LENGTH - 1) \o <<1>>

StructTag(address, module, name) ==
    [tag |-> "Struct", address |-> address, module |-> module, name |-> name,
     type_params |-> <<>>]

coin1_tmp_tag == StructTag(CORE_CODE_ADDRESS, Coin1, Coin1)

\* The compiled code of the two scripts the model knows, cut to a few bytes.
PEER_TO_PEER_WITH_METADATA_CODE == <<161, 28, 235, 11, 1>>
ROTATE_AUTHENTICATION_KEY_CODE == <<161, 28, 235, 11, 2>>

encode_peer_to_peer_with_metadata_script(currency, payee, amt, metadata, metadata_signature) ==
    [code |-> PEER_TO_PEER_WITH_METADATA_CODE,
     ty_args |-> <<currency>>,
     args |-> <<[tag |-> "Address", v |-> payee], [tag |-> "U64", v |-> amt],
                [tag |-> "U8Vector", v |-> metadata],
                [tag |-> "U8Vector", v |-> metadata_signature]>>]

HasArgument(script, i, tag) == Len(script.args) >= i /\ script.args[i].tag = tag

\* ScriptCall::decode: None for unknown code or for arguments of another shape.
ScriptCall_decode(script) ==
    IF script.code = PEER_TO_PEER_WITH_METADATA_CODE
    THEN IF /\ Len(script.ty_args) >= 1
            /\ HasArgument(script, 1, "Address") /\ HasArgument(script, 2, "U64")
            /\ HasArgument(script, 3, "U8Vector") /\ HasArgument(script, 4, "U8Vector")
         THEN Some([call |-> "PeerToPeerWithMetadata", currency |-> script.ty_args[1],
                    payee |-> script.args[1].v, amount |-> script.args[2].v])
         ELSE None
    ELSE IF script.code = ROTATE_AUTHENTICATION_KEY_CODE
    THEN IF HasArgument(script, 1, "U8Vector")
         THEN Some([call |-> "RotateAuthenticationKey"])
         ELSE None
    ELSE None

RawTransaction_new_script(sender, sequence_number, script, max_gas_amount, gas_unit_price, gas_currency_code, expiration_timestamp_secs, chain_id) ==
    [sender |-> sender, sequence_number |-> sequence_number,
     payload |-> [tag |-> "Script", script |-> script],
     max_gas_amount |-> max_gas_amount, gas_unit_price |-> gas_unit_price,
     gas_currency_code |-> gas_currency_code,
     expiration_timestamp_secs |-> expiration_timestamp_secs, chain_id |-> chain_id]

SignedTransaction_new(raw_txn, public_key, signature) ==
    [raw_txn |-> raw_txn,
     authenticator |-> [tag |-> "Ed25519", public_key |-> public_key,
                        signature |-> signature]]

\* The bytes a signature of a raw transaction is made over.
signing_message(raw_txn) == RawTransactionHasher_seed \o lcs_RawTransaction(raw_txn)

\* The i-th of the keys (width 32) or signatures (width 64) packed in b.
Packed(b, i, width) == SubSeq(b, (i - 1) * width + 1, i * width)

\* A check that lets every signature pass.
check_signature_skipped(signed) == TRUE

\* SignedTransaction::check_signature: the authenticator's signature(s) over
\* the raw transaction.  A multi-signature holds the signatures of the first
\* k keys and needs at least the threshold of them.
check_signature(signed) ==
    LET auth == signed.authenticator
        message == signing_message(signed.raw_txn)
        k == (Len(auth.signature) - 4) \div ED25519_SIGNATURE_LENGTH
        n == (Len(auth.public_key) - 1) \div ED25519_PUBLIC_KEY_LENGTH
    IN  IF auth.tag = "Ed25519"
        THEN Ed25519_verify(auth.public_key, message, auth.signature)
        ELSE /\ k <= n
             /\ k >= auth.public_key[Len(auth.public_key)]
             /\ \A i \in 1..k :
                    Ed25519_verify(Packed(auth.public_key, i, ED25519_PUBLIC_KEY_LENGTH),
                                   message,
                                   Packed(auth.signature, i, ED25519_SIGNATURE_LENGTH))

\* Transaction::UserTransaction(signed).hash().to_hex()
Transaction_hash_hex(signed) ==
    hex_encode(HashBytes(TransactionHasher_seed \o <<0>> \o lcs_SignedTransaction(signed)))

\* AuthenticationKey::ed25519(key).derived_address(): the last bytes of the
\* digest of the key and the scheme byte.
derived_address(public_key) ==
    SubSeq(HashBytes(public_key \o <<0>>), HASH_LENGTH - ADDRESS_LENGTH + 1, HASH_LENGTH)

(***************************************************************************)
(* Configuration and errors.                                               *)
(***************************************************************************)
BLOCKCHAIN == "Libra"

\* Options.network, set once at startup.
options_network == "testnet"

ApiError(kind) == Err(kind, "")
deserialization_failed(type) == Err("DeserializationFailed", type)

\* The ApiError a `?` makes of a hex, serialisation or clock error.
ApiError_from(e) == Err("DeserializationFailed", e.error)

\* The ApiError made of a chain client's (LibraError) failure.
ApiError_from_LibraError(e) == Err("GatewayFailure", e.error)

\* A handler that panics answers with no ApiError at all.
Panic(detail) == Err("panic", detail)

\* A gate that looks at the blockchain alone.
bad_network_blockchain(network_identifier) == network_identifier.blockchain # BLOCKCHAIN

bad_network(network_identifier) ==
    network_identifier.blockchain # BLOCKCHAIN \/ network_identifier.network # options_network

AccountIdentifier(address) == [address |-> address, sub_account |-> None]

Currency(symbol, decimals) == [symbol |-> symbol, decimals |-> decimals]

Amount(value, currency) == [value |-> value, currency |-> currency]

OperationIdentifier(index) == [index |-> index, network_index |-> None]

Operation(index, related_operations, type_, account, amt) ==
    [operation_identifier |-> OperationIdentifier(index),
     related_operations |-> related_operations,
     type_ |-> type_, status |-> <<>>, account |-> account, amount |-> amt]

(***************************************************************************)
(* The chain client (libra.rs).  A reply of the node is the outcome of     *)
(* client.execute(batch): a transport failure, or a list of results, each  *)
(* an error or a response.                                                 *)
(***************************************************************************)
LibraError(kind) == Err(kind, "")

\* get_account_with_metadata, up to the call: the address must parse.
get_account_with_metadata_batch(address) ==
    LET account_address == parse_AccountAddress(address)
    IN  IF ~account_address.ok THEN LibraError("RequestFailed")
        ELSE Ok(<<[method |-> "get_account", address |-> account_address.value],
                  [method |-> "get_metadata"]>>)

\* get_account_with_metadata, from the reply on.
get_account_with_metadata_result(reply) ==
    IF ~reply.ok THEN LibraError("JsonRpcResponse")
    ELSE IF Len(reply.value) # 2 THEN LibraError("UnexpectedResponse")
    ELSE IF ~reply.value[1].ok THEN LibraError("JsonRpcResponse")
    ELSE IF ~reply.value[2].ok THEN LibraError("JsonRpcResponse")
    ELSE IF /\ reply.value[1].value.tag = "AccountResponse"
            /\ reply.value[2].value.tag = "MetadataViewResponse"
         THEN Ok([account |-> reply.value[1].value.account,
                  metadata |-> reply.value[2].value.metadata])
    ELSE LibraError("UnexpectedResponse")

\* submit, up to the call.
submit_batch(transaction) == <<[method |-> "submit", transaction |-> transaction]>>

\* submit, from the reply on.
submit_result(reply) ==
    IF ~reply.ok THEN LibraError("JsonRpcResponse")
    ELSE IF Len(reply.value) # 1 THEN LibraError("UnexpectedResponse")
    ELSE IF ~reply.value[1].ok THEN LibraError("JsonRpcResponse")
    ELSE IF reply.value[1].value.tag = "SubmissionResponse" THEN Ok(<<>>)
    ELSE LibraError("UnexpectedResponse")

(***************************************************************************)
(* The handlers of construction.rs.                                        *)
(***************************************************************************)
derive(derive_request) ==
    IF bad_network(derive_request.network_identifier) THEN ApiError("BadNetwork")
    ELSE LET bytes == hex_decode(derive_request.public_key.hex_bytes)
             public_key == IF bytes.ok THEN Ed25519PublicKey_try_from(bytes.value) ELSE bytes
         IN  IF ~public_key.ok THEN deserialization_failed("Ed25519PublicKey")
             ELSE Ok([account_identifier |->
                        AccountIdentifier(hex_encode(derived_address(public_key.value)))])

preprocess(preprocess_request) ==
    IF bad_network(preprocess_request.network_identifier) THEN ApiError("BadNetwork")
    ELSE LET transfer == extract_transfer_from_operations(preprocess_request.operations)
         IN  IF ~transfer.ok THEN Err("BadTransferOperations", transfer.detail)
             ELSE Ok([options |->
                        [sender_address |-> address_into_string(transfer.value.sender)]])

\* metadata, up to the gateway call: the response if there is one already,
\* else the batch to send.
metadata_before_call(metadata_request) ==
    IF bad_network(metadata_request.network_identifier)
    THEN [done |-> TRUE, response |-> ApiError("BadNetwork")]
    ELSE LET batch == get_account_with_metadata_batch(metadata_request.options.sender_address)
         IN  IF ~batch.ok
             THEN [done |-> TRUE, response |-> ApiError_from_LibraError(batch)]
             ELSE [done |-> FALSE, batch |-> batch.value]

\* metadata that answers for a missing account with sequence number 0.
metadata_after_call_default(reply) ==
    LET result == get_account_with_metadata_result(reply)
    IN  IF ~result.ok THEN ApiError_from_LibraError(result)
        ELSE Ok([metadata |->
                    [chain_id |-> result.value.metadata.chain_id,
                     sequence_number |->
                        IF result.value.account = None THEN 0
                        ELSE result.value.account[1].sequence_number]])

\* metadata, from the gateway's reply on.
metadata_after_call(reply) ==
    LET result == get_account_with_metadata_result(reply)
    IN  IF ~result.ok THEN ApiError_from_LibraError(result)
        ELSE IF result.value.account = None THEN ApiError("AccountNotFound")
        ELSE Ok([metadata |->
                    [chain_id |-> result.value.metadata.chain_id,
                     sequence_number |-> result.value.account[1].sequence_number]])

\* An expiration at the clock reading itself.
expiration_of_now(now) == now.value

\* The clock reading plus ten seconds, in whole seconds.
expiration_of(now) == now.value + 10

\* The bytes to sign: the hasher's seed, and the raw transaction serialised
\* onto it a second time.
bytes_to_sign_unseeded(raw_transaction) == lcs_RawTransaction(raw_transaction)

bytes_to_sign(raw_transaction) ==
    RawTransactionHasher_seed \o lcs_RawTransaction(raw_transaction)

\* `now` is SystemTime::now().duration_since(UNIX_EPOCH): whole seconds, or
\* an error when the clock is set before the epoch.
payloads(payloads_request, now) ==
    IF bad_network(payloads_request.network_identifier) THEN ApiError("BadNetwork")
    ELSE LET chain_id == payloads_request.metadata.chain_id
             sequence_number == payloads_request.metadata.sequence_number
             transfer == extract_transfer_from_operations(payloads_request.operations)
             sender == transfer.value.sender
             max_gas_amount == 10000
             gas_unit_price == 0
             gas_currency_code == transfer.value.currency
             expiration_timestamp_secs == expiration_of(now)
             currency == StructTag(CORE_CODE_ADDRESS, Coin1, Coin1)
             payee == transfer.value.receiver
             script == encode_peer_to_peer_with_metadata_script(
                           currency, payee, transfer.value.amount, <<>>, <<>>)
             raw_transaction == RawTransaction_new_script(
                           sender, sequence_number, script, max_gas_amount,
                           gas_unit_price, gas_currency_code,
                           expiration_timestamp_secs, chain_id)
             raw_bytes == lcs_RawTransaction(raw_transaction)
             unsigned_transaction == hex_encode(raw_bytes)
             bytes == bytes_to_sign(raw_transaction)
         IN  IF ~transfer.ok THEN Err("BadTransferOperations", transfer.detail)
             ELSE IF ~now.ok THEN ApiError_from(now)
             ELSE IF chain_id = 0 THEN Panic("cannot have chain ID with 0")
             ELSE Ok([unsigned_transaction |-> unsigned_transaction,
                      payloads |-> <<[address |-> address_into_string(sender),
                                      hex_bytes |-> hex_encode(bytes),
                                      signature_type |-> Some("Ed25519")]>>])

\* The two operations without the link from the second to the first.
parse_operations_unrelated(raw_transaction, payee, amt) ==
    <<Operation(0, None, "sentpayment",
                Some(AccountIdentifier(address_into_string(raw_transaction.sender))),
                Some(Amount(<<"-">> \o format_u64(amt), Currency(Coin1, 6)))),
      Operation(1, None, "receivedpayment",
                Some(AccountIdentifier(address_into_string(payee))),
                Some(Amount(format_u64(amt), Currency(Coin1, 6))))>>

\* The two operations parse answers with.
parse_operations(raw_transaction, payee, amt) ==
    <<Operation(0, None, "sentpayment",
                Some(AccountIdentifier(address_into_string(raw_transaction.sender))),
                Some(Amount(<<"-">> \o format_u64(amt), Currency(Coin1, 6)))),
      Operation(1, Some(<<OperationIdentifier(0)>>), "receivedpayment",
                Some(AccountIdentifier(address_into_string(payee))),
                Some(Amount(format_u64(amt), Currency(Coin1, 6))))>>

\* The payload filter without its check of the currency type.
parse_payload_any_coin(raw_transaction, account_identifier_signers) ==
    IF raw_transaction.payload.tag # "Script" THEN ApiError("BadTransactionPayload")
    ELSE LET call == ScriptCall_decode(raw_transaction.payload.script)
         IN  IF call = None \/ call[1].call # "PeerToPeerWithMetadata"
                 THEN ApiError("BadTransactionScript")
             ELSE Ok([operations |->
                          parse_operations(raw_transaction, call[1].payee, call[1].amount),
                      account_identifier_signers |-> account_identifier_signers])

\* parse, from the decoded raw transaction on.
parse_payload(raw_transaction, account_identifier_signers) ==
    IF raw_transaction.payload.tag # "Script" THEN ApiError("BadTransactionPayload")
    ELSE LET call == ScriptCall_decode(raw_transaction.payload.script)
         IN  IF call = None \/ call[1].call # "PeerToPeerWithMetadata"
                 THEN ApiError("BadTransactionScript")
             ELSE IF call[1].currency # coin1_tmp_tag THEN ApiError("BadCoin")
             ELSE Ok([operations |->
                          parse_operations(raw_transaction, call[1].payee, call[1].amount),
                      account_identifier_signers |-> account_identifier_signers])

\* A scheme that is single-key whatever the authenticator.
scheme_single(authenticator) == "Ed25519"

\* TransactionAuthenticator::scheme
scheme(authenticator) == authenticator.tag

parse(parse_request) ==
    IF bad_network(parse_request.network_identifier) THEN ApiError("BadNetwork")
    ELSE IF parse_request.signed THEN
        LET signed_bytes == hex_decode(parse_request.transaction)
            signed == from_bytes_SignedTransaction(signed_bytes.value)
        IN  IF ~signed_bytes.ok THEN ApiError_from(signed_bytes)
            ELSE IF ~signed.ok THEN deserialization_failed("SignedTransaction")
            ELSE IF ~check_signature(signed.value) THEN ApiError("BadSignature")
            ELSE IF scheme(signed.value.authenticator) = "MultiEd25519"
                 THEN ApiError("BadSignatureType")
            ELSE parse_payload(signed.value.raw_txn,
                     <<AccountIdentifier(address_into_string(signed.value.raw_txn.sender))>>)
    ELSE
        LET raw_bytes == hex_decode(parse_request.transaction)
            raw == from_bytes_RawTransaction(raw_bytes.value)
        IN  IF ~raw_bytes.ok THEN ApiError_from(raw_bytes)
            ELSE IF ~raw.ok THEN deserialization_failed("RawTransaction")
            ELSE parse_payload(raw.value, <<>>)

\* The signatures combine goes on with: exactly one, ...
signature_count_some(signatures) == Len(signatures) >= 1

signature_count_ok(signatures) == Len(signatures) = 1

\* ... of the Ed25519 type, with a key of the Edwards25519 curve.
signature_type_ok(signature) ==
    signature.signature_type = "Ed25519" /\ signature.public_key.curve_type = "Edwards25519"

combine(combine_request) ==
    IF bad_network(combine_request.network_identifier) THEN ApiError("BadNetwork")
    ELSE LET raw_bytes == hex_decode(combine_request.unsigned_transaction)
             raw_transaction == from_bytes_RawTransaction(raw_bytes.value)
             signature == combine_request.signatures[1]
             key_bytes == hex_decode(signature.public_key.hex_bytes)
             public_key == Ed25519PublicKey_try_from(key_bytes.value)
             sig_bytes == hex_decode(signature.hex_bytes)
             sig == Ed25519Signature_try_from(sig_bytes.value)
             signed_transaction ==
                 SignedTransaction_new(raw_transaction.value, public_key.value, sig.value)
             signed_bytes == lcs_SignedTransaction(signed_transaction)
         IN  IF ~raw_bytes.ok THEN ApiError_from(raw_bytes)
             ELSE IF ~raw_transaction.ok THEN deserialization_failed("RawTransaction")
             ELSE IF ~signature_count_ok(combine_request.signatures)
                  THEN ApiError("BadSignatureCount")
             ELSE IF ~signature_type_ok(signature) THEN ApiError("BadSignatureType")
             ELSE IF ~key_bytes.ok THEN ApiError_from(key_bytes)
             ELSE IF ~public_key.ok THEN deserialization_failed("Ed25519PublicKey")
             ELSE IF ~sig_bytes.ok THEN ApiError_from(sig_bytes)
             ELSE IF ~sig.ok THEN deserialization_failed("Ed25519Signature")
             ELSE Ok([signed_transaction |-> hex_encode(signed_bytes)])

\* A hash made of the request's text instead of the transaction it encodes.
hash_of_text(hash_request) ==
    IF bad_network(hash_request.network_identifier) THEN ApiError("BadNetwork")
    ELSE LET signed_bytes == hex_decode(hash_request.signed_transaction)
             signed_transaction == from_bytes_SignedTransaction(signed_bytes.value)
         IN  IF ~signed_bytes.ok THEN ApiError_from(signed_bytes)
             ELSE IF ~signed_transaction.ok THEN deserialization_failed("SignedTransaction")
             ELSE Ok([transaction_identifier |->
                        [hash |-> hex_encode(HashBytes(
                                     str_bytes(hash_request.signed_transaction)))]])

hash(hash_request) ==
    IF bad_network(hash_request.network_identifier) THEN ApiError("BadNetwork")
    ELSE LET signed_bytes == hex_decode(hash_request.signed_transaction)
             signed_transaction == from_bytes_SignedTransaction(signed_bytes.value)
         IN  IF ~signed_bytes.ok THEN ApiError_from(signed_bytes)
             ELSE IF ~signed_transaction.ok THEN deserialization_failed("SignedTransaction")
             ELSE Ok([transaction_identifier |->
                        [hash |-> Transaction_hash_hex(signed_transaction.value)]])

\* submit, up to the gateway call.
submit_before_call(submit_request) ==
    IF bad_network(submit_request.network_identifier)
    THEN [done |-> TRUE, response |-> ApiError("BadNetwork")]
    ELSE LET signed_bytes == hex_decode(submit_request.signed_transaction)
             signed_transaction == from_bytes_SignedTransaction(signed_bytes.value)
         IN  IF ~signed_bytes.ok
                 THEN [done |-> TRUE, response |-> ApiError_from(signed_bytes)]
             ELSE IF ~signed_transaction.ok
                 THEN [done |-> TRUE,
                       response |-> deserialization_failed("SignedTransaction")]
             ELSE [done |-> FALSE, batch |-> submit_batch(signed_transaction.value)]

\* submit that returns the identifier whatever the gateway answered.
submit_after_call_unacknowledged(submit_request, reply) ==
    Ok([transaction_identifier |->
          [hash |-> Transaction_hash_hex(
              from_bytes_SignedTransaction(
                  hex_decode(submit_request.signed_transaction).value).value)]])

\* submit, from the gateway's reply on.
submit_after_call(submit_request, reply) ==
    LET signed_transaction ==
            from_bytes_SignedTransaction(hex_decode(submit_request.signed_transaction).value)
        result == submit_result(reply)
    IN  IF ~result.ok THEN ApiError_from_LibraError(result)
        ELSE Ok([transaction_identifier |->
                    [hash |-> Transaction_hash_hex(signed_transaction.value)]])

(***************************************************************************)
(* The requests, clock readings and gateway replies the model draws from.  *)
(***************************************************************************)
MaxOps == 3

LBR == <<"L", "B", "R">>

AddressA == Rep(0, ADDRESS_LENGTH - 1) \o <<10>>
AddressB == Rep(0, ADDRESS_LENGTH - 1) \o <<11>>

\* Address A in upper-case hex, address B in lower-case hex, and text that
\* is no hex.
TextA == Rep("0", 2 * ADDRESS_LENGTH - 1) \o <<"A">>
TextB == hex_encode(AddressB)
TextNoHex == <<"x", "y">>

GoodNetwork == [blockchain |-> BLOCKCHAIN, network |-> options_network]

NetworkIdentifiers ==
    {[blockchain |-> b, network |-> n] :
        b \in {BLOCKCHAIN, "Bitcoin"}, n \in {options_network, "mainnet"}}

OperationTypes == {"sentpayment", "receivedpayment", "mint"}

AccountSamples ==
    {None} \cup {Some(AccountIdentifier(a)) : a \in {TextA, TextB, TextNoHex}}

ValueSamples ==
    {<<>>, <<"5">>, <<"-", "5">>, <<"-", "0", "5">>, <<"-", "7">>,
     <<"-", "+", "5">>, <<"-", "x">>}

CurrencySamples == {Currency(Coin1, 6), Currency(Coin1, 2), Currency(LBR, 6)}

AmountSamples ==
    {None} \cup {Some(Amount(v, c)) : v \in ValueSamples, c \in CurrencySamples}

OperationSamples ==
    {Operation(0, None, t, a, m) :
        t \in OperationTypes, a \in AccountSamples, m \in AmountSamples}

Sent(text, value, currency) ==
    Operation(0, None, "sentpayment", Some(AccountIdentifier(text)),
              Some(Amount(value, currency)))

Received(text, value, currency) ==
    Operation(1, None, "receivedpayment", Some(AccountIdentifier(text)),
              Some(Amount(value, currency)))

\* A few operations, from which arrays of every length up to MaxOps are made.
FewOperations ==
    {Sent(TextA, <<"-", "5">>, Currency(Coin1, 6)),
     Received(TextB, <<"5">>, Currency(Coin1, 6))}

OperationArrays ==
    UNION {[1..n -> FewOperations] : n \in 0..MaxOps}

\* Every pair of sampled operations: the arrays of length two.
OperationPairs == {<<a, b>> : a \in OperationSamples, b \in OperationSamples}

\* The arrays the pipeline stages are driven with.
TransferSamples ==
    OperationArrays \cup
    {<<Received(TextB, <<"5">>, Currency(Coin1, 6)),
       Sent(TextA, <<"-", "5">>, Currency(Coin1, 6))>>,
     <<Sent(TextB, <<"-", "0">>, Currency(Coin1, 6)),
       Received(TextA, <<"0">>, Currency(Coin1, 6))>>,
     <<Sent(TextA, <<"-", "1", "2">>, Currency(LBR, 6)),
       Received(TextB, <<"1", "2">>, Currency(LBR, 6))>>,
     <<Sent(TextA, <<"-", "5">>, Currency(Coin1, 6)),
       Received(TextB, <<"5">>, Currency(Coin1, 2))>>,
     <<Sent(TextA, <<"-", "5">>, Currency(Coin1, 6)),
       Received(TextNoHex, <<"5">>, Currency(Coin1, 6))>>,
     <<Sent(TextA, <<"5">>, Currency(Coin1, 6)),
       Received(TextB, <<"-", "5">>, Currency(Coin1, 6))>>}

MetadataSamples ==
    {[chain_id |-> c, sequence_number |-> n] : c \in {0, 4}, n \in {0, 7}}

\* The clock: before the epoch, or a number of seconds after it.
ClockReadings == {Err("SystemTimeError", ""), Ok(0), Ok(1000)}

\* Keys and signatures.
KeyK == Rep(7, ED25519_PUBLIC_KEY_LENGTH - 1) \o <<2>>
KeyOffCurve == Rep(7, ED25519_PUBLIC_KEY_LENGTH - 1) \o <<3>>
SignatureForged == Rep(9, ED25519_SIGNATURE_LENGTH - 1) \o <<1>>
SignatureNotCanonical == Rep(9, ED25519_SIGNATURE_LENGTH - 1) \o <<200>>

\* Raw transactions as a client could hand them in.
TransferScript(currency, amt) ==
    encode_peer_to_peer_with_metadata_script(currency, AddressB, amt, <<>>, <<>>)

RawSample(payload) ==
    [sender |-> AddressA, sequence_number |-> 7, payload |-> payload,
     max_gas_amount |-> 10000, gas_unit_price |-> 0, gas_currency_code |-> Coin1,
     expiration_timestamp_secs |-> 1010, chain_id |-> 4]

RawSamples ==
    {RawSample([tag |-> "Script", script |-> TransferScript(coin1_tmp_tag, 5)]),
     RawSample([tag |-> "Script", script |-> TransferScript(coin1_tmp_tag, 0)]),
     RawSample([tag |-> "Script",
                script |-> TransferScript(StructTag(CORE_CODE_ADDRESS, LBR, LBR), 5)]),
     RawSample([tag |-> "Script", script |-> TransferScript([tag |-> "U64"], 5)]),
     RawSample([tag |-> "Script",
                script |-> [code |-> ROTATE_AUTHENTICATION_KEY_CODE, ty_args |-> <<>>,
                            args |-> <<[tag |-> "U8Vector", v |-> <<1, 2>>]>>]]),
     RawSample([tag |-> "Script",
                script |-> [code |-> <<1, 2, 3>>, ty_args |-> <<>>, args |-> <<>>]]),
     RawSample([tag |-> "Script",
                script |-> [code |-> PEER_TO_PEER_WITH_METADATA_CODE,
                            ty_args |-> <<coin1_tmp_tag>>,
                            args |-> <<[tag |-> "U64", v |-> 5],
                                       [tag |-> "Address", v |-> AddressB]>>]]),
     RawSample([tag |-> "Module", code |-> <<1, 2, 3>>])}

SignedBy(raw, key) == SignedTransaction_new(raw, key, Ed25519_sign(key, signing_message(raw)))

MultiSigned(raw, signature) ==
    [raw_txn |-> raw,
     authenticator |-> [tag |-> "MultiEd25519", public_key |-> KeyK \o <<1>>,
                        signature |-> signature \o <<128, 0, 0, 0>>]]

SignedSamples ==
    UNION {{SignedBy(raw, KeyK),
            SignedTransaction_new(raw, KeyK, SignatureForged),
            MultiSigned(raw, Ed25519_sign(KeyK, signing_message(raw))),
            MultiSigned(raw, SignatureForged)} : raw \in RawSamples}

\* Text that is no hex, hex of an odd length, and hex of bytes that are no
\* transaction.
BrokenHex == {<<"z", "z">>, <<"0", "1", "2">>, <<>>, <<"0", "1", "0", "2">>}

UnsignedHexSamples ==
    {hex_encode(lcs_RawTransaction(raw)) : raw \in RawSamples} \cup BrokenHex

SignedHexSamples ==
    {hex_encode(lcs_SignedTransaction(signed)) : signed \in SignedSamples} \cup BrokenHex

TransactionHexSamples == UnsignedHexSamples \cup SignedHexSamples

Signature(signature_type, curve_type, key_hex, signature_hex) ==
    [signature_type |-> signature_type,
     public_key |-> [hex_bytes |-> key_hex, curve_type |-> curve_type],
     hex_bytes |-> signature_hex]

\* The signatures a caller hands to combine for the bytes `message`.
SignatureSamples(message) ==
    {Signature("Ed25519", "Edwards25519", hex_encode(KeyK),
               hex_encode(Ed25519_sign(KeyK, message))),
     Signature("Ed25519", "Edwards25519", hex_encode(KeyK), hex_encode(SignatureForged)),
     Signature("Ecdsa", "Edwards25519", hex_encode(KeyK), hex_encode(SignatureForged)),
     Signature("Ed25519", "Secp256k1", hex_encode(KeyK), hex_encode(SignatureForged)),
     Signature("Ed25519", "Edwards25519", <<"z">>, hex_encode(SignatureForged)),
     Signature("Ed25519", "Edwards25519", hex_encode(KeyOffCurve), hex_encode(SignatureForged)),
     Signature("Ed25519", "Edwards25519", hex_encode(KeyK), <<"z">>),
     Signature("Ed25519", "Edwards25519", hex_encode(KeyK),
               hex_encode(SignatureNotCanonical)),
     Signature("Ecdsa", "Secp256k1", <<"z">>, <<"z">>)}

SignatureLists(message) ==
    {<<>>} \cup {<<x>> : x \in SignatureSamples(message)}
    \cup {<<x, x>> : x \in {Signature("Ed25519", "Edwards25519", hex_encode(KeyK),
                                      hex_encode(Ed25519_sign(KeyK, message))),
                            Signature("Ecdsa", "Secp256k1", <<"z">>, <<"z">>)}}

PublicKeySamples ==
    {[hex_bytes |-> h, curve_type |-> "Edwards25519"] :
        h \in {hex_encode(KeyK), hex_encode(KeyOffCurve), <<"0", "a">>, <<"z">>}}

\* Replies of the node.
AccountView(sequence_number) == [sequence_number |-> sequence_number, balances |-> <<>>]
MetadataView(chain_id) == [chain_id |-> chain_id, version |-> 100, timestamp |-> 5000]
AccountResponse(account) == Ok([tag |-> "AccountResponse", account |-> account])
MetadataViewResponse(metadata) == Ok([tag |-> "MetadataViewResponse", metadata |-> metadata])
SubmissionResponse == Ok([tag |-> "SubmissionResponse"])
RpcError == Err("JsonRpcError", "")

AccountMetadataReplies ==
    {Err("transport", ""), Ok(<<>>), Ok(<<AccountResponse(None)>>),
     Ok(<<RpcError, MetadataViewResponse(MetadataView(4))>>),
     Ok(<<AccountResponse(None), RpcError>>),
     Ok(<<MetadataViewResponse(MetadataView(4)), AccountResponse(None)>>),
     Ok(<<AccountResponse(None), MetadataViewResponse(MetadataView(4))>>),
     Ok(<<AccountResponse(Some(AccountView(7))), MetadataViewResponse(MetadataView(4))>>),
     Ok(<<AccountResponse(Some(AccountView(0))), MetadataViewResponse(MetadataView(2))>>)}

SubmitReplies ==
    {Err("transport", ""), Ok(<<>>), Ok(<<RpcError>>), Ok(<<SubmissionResponse>>),
     Ok(<<MetadataViewResponse(MetadataView(4))>>),
     Ok(<<SubmissionResponse, SubmissionResponse>>)}

(***************************************************************************)
(* The server as a state machine.  A caller sends one request at a time;   *)
(* a handler runs to its response, stopping only where it awaits the chain *)
(* gateway.  Nothing of a request outlives it: what the state keeps of an  *)
(* earlier stage is what the caller carried over into the request.         *)
(***************************************************************************)
VARIABLES
    request,    \* the request being handled, or handled last
    response,   \* its response, once pc = "done"
    pc,         \* "idle", "metadata_await", "submit_await", "await" or "done"
    gateway,    \* the gateway calls made for this request, in order
    replies,    \* what the gateway answered to them, in order
    now,        \* the clock reading the handler took, if it took one
    carried     \* the earlier stage whose response the caller built this request from

vars == <<request, response, pc, gateway, replies, now, carried>>

NoRequest == [stage |-> "none"]
NoResponse == [ok |-> FALSE, error |-> "", detail |-> ""]
Fresh == [stage |-> "none"]

Init ==
    /\ request = NoRequest
    /\ response = NoResponse
    /\ pc = "idle"
    /\ gateway = <<>>
    /\ replies = <<>>
    /\ now = None
    /\ carried = Fresh

\* The caller sends a request of its own making when it holds no response,
\* and one built from a response it holds once a stage has answered.
Ready == pc = "idle"

\* What the caller carries over from the stage that just answered.
Carry == [stage |-> request.stage, request |-> request, response |-> response]

Answered(stage) == pc = "done" /\ request.stage = stage /\ response.ok

\* The caller drops the response it holds.
Forget ==
    /\ pc = "done"
    /\ request' = NoRequest
    /\ response' = NoResponse
    /\ pc' = "idle"
    /\ gateway' = <<>>
    /\ replies' = <<>>
    /\ now' = None
    /\ carried' = Fresh

\* A handler that runs to its response without awaiting anything.
Finish(req, resp, reading, from) ==
    /\ request' = req
    /\ response' = resp
    /\ pc' = "done"
    /\ gateway' = <<>>
    /\ replies' = <<>>
    /\ now' = reading
    /\ carried' = from

DeriveRequests ==
    {[stage |-> "derive", network_identifier |-> n, public_key |-> k] :
        n \in NetworkIdentifiers, k \in PublicKeySamples}

Derive ==
    /\ Ready
    /\ \E req \in DeriveRequests : Finish(req, derive(req), None, Fresh)

PreprocessRequest(n, ops) ==
    [stage |-> "preprocess", network_identifier |-> n, operations |-> ops]

Preprocess ==
    /\ pc \in {"idle", "done"}
    /\ \/ Ready /\ \E n \in NetworkIdentifiers, ops \in TransferSamples :
            LET req == PreprocessRequest(n, ops)
            IN  Finish(req, preprocess(req), None, Fresh)
       \/ /\ Answered("parse")
          /\ LET req == PreprocessRequest(GoodNetwork, response.value.operations)
             IN  Finish(req, preprocess(req), None, Carry)

MetadataRequest(n, options) ==
    [stage |-> "metadata", network_identifier |-> n, options |-> options]

\* metadata up to its await: it answers at once, or sends its batch.
MetadataStart(req, from) ==
    LET step == metadata_before_call(req)
    IN  /\ request' = req
        /\ carried' = from
        /\ now' = None
        /\ replies' = <<>>
        /\ IF step.done
           THEN /\ response' = step.response
                /\ pc' = "done"
                /\ gateway' = <<>>
           ELSE /\ response' = NoResponse
                /\ pc' = "metadata_await"
                /\ gateway' = <<step.batch>>

Metadata ==
    /\ pc \in {"idle", "done"}
    /\ \/ Ready /\ \E n \in NetworkIdentifiers, a \in {TextA, TextB, TextNoHex} :
            MetadataStart(MetadataRequest(n, [sender_address |-> a]), Fresh)
       \/ /\ Answered("preprocess")
          /\ MetadataStart(MetadataRequest(GoodNetwork, response.value.options), Carry)

MetadataReply ==
    /\ pc = "metadata_await"
    /\ \E reply \in AccountMetadataReplies :
          /\ response' = metadata_after_call(reply)
          /\ replies' = <<reply>>
          /\ pc' = "done"
          /\ UNCHANGED <<request, gateway, now, carried>>

PayloadsRequest(n, ops, metadata) ==
    [stage |-> "payloads", network_identifier |-> n, operations |-> ops,
     metadata |-> metadata]

\* Whether payloads gets as far as reading the clock.
reads_clock(req) ==
    /\ ~bad_network(req.network_identifier)
    /\ extract_transfer_from_operations(req.operations).ok

PayloadsRun(req, from) ==
    \E reading \in ClockReadings :
        Finish(req, payloads(req, reading),
               IF reads_clock(req) THEN Some(reading) ELSE None, from)

Payloads ==
    /\ pc \in {"idle", "done"}
    /\ \/ Ready /\ \E n \in NetworkIdentifiers, ops \in TransferSamples, m \in MetadataSamples :
            PayloadsRun(PayloadsRequest(n, ops, m), Fresh)
       \/ /\ Answered("metadata")
          /\ \E ops \in TransferSamples :
                PayloadsRun(PayloadsRequest(GoodNetwork, ops, response.value.metadata), Carry)
       \/ /\ Answered("parse")
          /\ \E m \in MetadataSamples :
                PayloadsRun(PayloadsRequest(GoodNetwork, response.value.operations, m), Carry)

ParseRequest(n, signed, transaction) ==
    [stage |-> "parse", network_identifier |-> n, signed |-> signed,
     transaction |-> transaction]

Parse ==
    /\ pc \in {"idle", "done"}
    /\ \/ Ready /\ \E n \in NetworkIdentifiers, signed \in BOOLEAN, t \in TransactionHexSamples :
            LET req == ParseRequest(n, signed, t)
            IN  Finish(req, parse(req), None, Fresh)
       \/ /\ Answered("payloads")
          /\ \E n \in NetworkIdentifiers, signed \in BOOLEAN :
                LET req == ParseRequest(n, signed, response.value.unsigned_transaction)
                IN  Finish(req, parse(req), None, Carry)
       \/ /\ Answered("combine")
          /\ \E signed \in BOOLEAN :
                LET req == ParseRequest(GoodNetwork, signed, response.value.signed_transaction)
                IN  Finish(req, parse(req), None, Carry)

CombineRequest(n, unsigned_transaction, signatures) ==
    [stage |-> "combine", network_identifier |-> n,
     unsigned_transaction |-> unsigned_transaction, signatures |-> signatures]

\* The bytes the signer was given for a sampled unsigned transaction.
MessageOf(unsigned_hex) ==
    IF hex_decode(unsigned_hex).ok
    THEN RawTransactionHasher_seed \o hex_decode(unsigned_hex).value
    ELSE <<>>

Combine ==
    /\ pc \in {"idle", "done"}
    /\ \/ Ready /\ \E n \in NetworkIdentifiers, u \in UnsignedHexSamples :
            \E sigs \in SignatureLists(MessageOf(u)) :
                LET req == CombineRequest(n, u, sigs)
                IN  Finish(req, combine(req), None, Fresh)
       \/ /\ Answered("payloads")
          /\ \E n \in NetworkIdentifiers :
                \E sigs \in SignatureLists(hex_decode(response.value.payloads[1].hex_bytes).value) :
                    LET req == CombineRequest(n, response.value.unsigned_transaction, sigs)
                    IN  Finish(req, combine(req), None, Carry)

HashRequest(n, signed_transaction) ==
    [stage |-> "hash", network_identifier |-> n, signed_transaction |-> signed_transaction]

Hash ==
    /\ pc \in {"idle", "done"}
    /\ \/ Ready /\ \E n \in NetworkIdentifiers, t \in SignedHexSamples :
            LET req == HashRequest(n, t)
            IN  Finish(req, hash(req), None, Fresh)
       \/ /\ Answered("combine")
          /\ LET req == HashRequest(GoodNetwork, response.value.signed_transaction)
             IN  Finish(req, hash(req), None, Carry)

SubmitRequest(n, signed_transaction) ==
    [stage |-> "submit", network_identifier |-> n, signed_transaction |-> signed_transaction]

\* submit up to its await: it answers at once, or sends the transaction.
SubmitStart(req, from) ==
    LET step == submit_before_call(req)
    IN  /\ request' = req
        /\ carried' = from
        /\ now' = None
        /\ replies' = <<>>
        /\ IF step.done
           THEN /\ response' = step.response
                /\ pc' = "done"
                /\ gateway' = <<>>
           ELSE /\ response' = NoResponse
                /\ pc' = "submit_await"
                /\ gateway' = <<step.batch>>

Submit ==
    /\ pc \in {"idle", "done"}
    /\ \/ Ready /\ \E n \in NetworkIdentifiers, t \in SignedHexSamples :
            SubmitStart(SubmitRequest(n, t), Fresh)
       \/ /\ Answered("combine")
          /\ SubmitStart(SubmitRequest(GoodNetwork, response.value.signed_transaction), Carry)

SubmitReply ==
    /\ pc = "submit_await"
    /\ \E reply \in SubmitReplies :
          /\ response' = submit_after_call(request, reply)
          /\ replies' = <<reply>>
          /\ pc' = "done"
          /\ UNCHANGED <<request, gateway, now, carried>>

Next ==
    \/ Derive
    \/ Preprocess
    \/ Metadata
    \/ MetadataReply
    \/ Payloads
    \/ Parse
    \/ Combine
    \/ Hash
    \/ Submit
    \/ SubmitReply
    \/ Forget

Spec == Init /\ [][Next]_vars

(***************************************************************************)
(* extract_transfer_from_operations on its own: every sampled array is     *)
(* extracted, and every array of two operations once more with its two     *)
(* positions swapped.                                                      *)
(***************************************************************************)
ExtractSamples == OperationPairs \cup OperationArrays

ExtractRequest(ops) == [stage |-> "extract", operations |-> ops]

InitExtract ==
    /\ request \in {ExtractRequest(ops) : ops \in ExtractSamples}
    /\ response = NoResponse
    /\ pc = "idle"
    /\ gateway = <<>>
    /\ replies = <<>>
    /\ now = None
    /\ carried = Fresh

Extract ==
    /\ pc = "idle"
    /\ response' = extract_transfer_from_operations(request.operations)
    /\ pc' = "done"
    /\ UNCHANGED <<request, gateway, replies, now, carried>>

ExtractSwapped ==
    /\ pc = "done"
    /\ carried = Fresh
    /\ Len(request.operations) = 2
    /\ request' = ExtractRequest(<<request.operations[2], request.operations[1]>>)
    /\ response' = extract_transfer_from_operations(request'.operations)
    /\ carried' = Carry
    /\ UNCHANGED <<pc, gateway, replies, now>>

NextExtract == Extract \/ ExtractSwapped

SpecExtract == InitExtract /\ [][NextExtract]_vars

\* An extraction that has answered.
Extracted == request.stage = "extract" /\ pc = "done"

\* The two operations of an array of two, as the sentpayment one and the
\* receivedpayment one, when it has one of each.
OneOfEach(ops, i, j) ==
    /\ i # j
    /\ ops[i].type_ = "sentpayment"
    /\ ops[j].type_ = "receivedpayment"

Complete(op) == op.account # None /\ op.amount # None

\* The text of an amount reads as a debit, or as a credit, of m.
ReadsAsDebit(text, m) == Value_from_str(text) = Ok([tag |-> "Debit", v |-> m])
ReadsAsCredit(text, m) == Value_from_str(text) = Ok([tag |-> "Credit", v |-> m])

Magnitudes == 0..12

\* C3 (extraction soundness): an extraction that returns a Transfer was given
\* exactly two operations, one sentpayment and one receivedpayment, both with
\* an account and an amount, the sent amount a Debit(m) and the received one
\* a Credit(m) of the same m, and the Transfer holds the sentpayment account
\* as sender, the receivedpayment account as receiver, m as amount and the
\* sentpayment currency's symbol; an array of any other length is rejected,
\* which preprocess reports as a transfer-operations error.
C3_ExtractionSound ==
    Extracted =>
        LET ops == request.operations
        IN  /\ response.ok =>
                /\ Len(ops) = 2
                /\ \E i, j \in 1..2 :
                      /\ OneOfEach(ops, i, j)
                      /\ Complete(ops[i]) /\ Complete(ops[j])
                      /\ \E m \in Magnitudes :
                            /\ ReadsAsDebit(ops[i].amount[1].value, m)
                            /\ ReadsAsCredit(ops[j].amount[1].value, m)
                            /\ response.value.amount = m
                      /\ Ok(response.value.sender)
                            = parse_AccountAddress(ops[i].account[1].address)
                      /\ Ok(response.value.receiver)
                            = parse_AccountAddress(ops[j].account[1].address)
                      /\ response.value.currency = ops[i].amount[1].currency.symbol
            /\ Len(ops) # 2 =>
                /\ ~response.ok
                /\ preprocess(PreprocessRequest(GoodNetwork, ops)).ok = FALSE
                /\ preprocess(PreprocessRequest(GoodNetwork, ops)).error
                      = "BadTransferOperations"

\* A Transfer extracted from a received/sent pair given in that order.
C3_Witness ==
    /\ Extracted
    /\ response.ok
    /\ request.operations[1].type_ = "receivedpayment"
    /\ response.value.amount = 5
    /\ response.value.sender = AddressA
    /\ response.value.receiver = AddressB

\* What C4 asks of an array for extraction to succeed.
WellFormedTransfer(ops) ==
    /\ Len(ops) = 2
    /\ \E i, j \in 1..2 :
          /\ OneOfEach(ops, i, j)
          /\ Complete(ops[i]) /\ Complete(ops[j])
          /\ parse_AccountAddress(ops[i].account[1].address).ok
          /\ parse_AccountAddress(ops[j].account[1].address).ok
          /\ ops[i].amount[1].currency = ops[j].amount[1].currency
          /\ \E m \in Magnitudes :
                /\ ReadsAsDebit(ops[i].amount[1].value, m)
                /\ ReadsAsCredit(ops[j].amount[1].value, m)

\* C4 (extraction completeness and order independence): an array of one
\* sentpayment and one receivedpayment operation, both with a well-formed
\* account address and an amount, of the same currency, the sent value a
\* Debit and the received value the Credit that reconciles with it, is
\* extracted; and the array with its two positions swapped has the same
\* outcome: the same Transfer, or a rejection in both orders.
C4_ExtractionComplete ==
    Extracted =>
        /\ WellFormedTransfer(request.operations) => response.ok
        /\ carried.stage = "extract" =>
              /\ response.ok = carried.response.ok
              /\ response.ok => response.value = carried.response.value

\* A pair given receivedpayment first and extracted, after the same pair
\* given sentpayment first.
C4_Witness ==
    /\ Extracted
    /\ carried.stage = "extract"
    /\ WellFormedTransfer(request.operations)
    /\ request.operations[1].type_ = "receivedpayment"
    /\ response.ok
    /\ carried.response.ok

\* Two operations that both carry an amount.
TwoAmounts(ops) == Len(ops) = 2 /\ ops[1].amount # None /\ ops[2].amount # None

MismatchedCurrencies == Err("anyhow", "mismatched currencies in ops")

\* C5 as stated (currencies match by symbol): amounts whose currency symbols
\* differ are rejected, and amounts whose currency symbols are equal are
\* never rejected for a currency mismatch, whatever their decimals are.
C5_MatchBySymbol ==
    Extracted /\ TwoAmounts(request.operations) =>
        LET a == request.operations[1].amount[1].currency
            b == request.operations[2].amount[1].currency
        IN  /\ a.symbol # b.symbol => ~response.ok
            /\ a.symbol = b.symbol => response # MismatchedCurrencies

\* C5, amended (currencies match as whole values): amounts whose currencies
\* differ, in symbol or in decimals, are rejected, with the currency mismatch
\* as the reason when the array passed the checks before it; and amounts of
\* equal symbol and equal decimals are never rejected for a currency mismatch.
C5_MatchByCurrency ==
    Extracted /\ TwoAmounts(request.operations) =>
        LET ops == request.operations
            a == ops[1].amount[1].currency
            b == ops[2].amount[1].currency
        IN  /\ a.symbol # b.symbol \/ a.decimals # b.decimals =>
                /\ ~response.ok
                /\ (\E i, j \in 1..2 : OneOfEach(ops, i, j))
                   /\ Complete(ops[1]) /\ Complete(ops[2])
                      => response = MismatchedCurrencies
            /\ a.symbol = b.symbol /\ a.decimals = b.decimals
                  => response # MismatchedCurrencies

\* Amounts of one symbol and different decimals, rejected as mismatched.
C5_Witness ==
    /\ Extracted
    /\ TwoAmounts(request.operations)
    /\ request.operations[1].amount[1].currency.symbol
          = request.operations[2].amount[1].currency.symbol
    /\ request.operations[1].amount[1].currency.decimals
          # request.operations[2].amount[1].currency.decimals
    /\ response = MismatchedCurrencies

(***************************************************************************)
(* The construction stages.                                                *)
(***************************************************************************)
Stages ==
    {"derive", "preprocess", "metadata", "payloads", "parse", "combine", "hash", "submit"}

\* A stage that has answered.
Handled(stage) == request.stage = stage /\ pc = "done"

\* The request names the configured chain and network.
RightNetwork ==
    /\ request.network_identifier.blockchain = BLOCKCHAIN
    /\ request.network_identifier.network = options_network

BadNetwork == [ok |-> FALSE, error |-> "BadNetwork", detail |-> ""]

\* C1 (network gate): in each of the eight stages a request whose blockchain
\* or whose network is not the configured one is answered BadNetwork,
\* whatever else it holds, and nothing is done before: no gateway call is
\* made (metadata and submit do not get to await one) and no clock is read.
C1_NetworkGate ==
    request.stage \in Stages /\ ~RightNetwork =>
        /\ pc = "done"
        /\ response = BadNetwork
        /\ gateway = <<>>
        /\ now = None

\* A submit of a transaction that decodes, for the right chain and another
\* network, answered BadNetwork with no call made.
C1_Witness ==
    /\ Handled("submit")
    /\ request.network_identifier.blockchain = BLOCKCHAIN
    /\ request.network_identifier.network # options_network
    /\ hex_decode(request.signed_transaction).ok
    /\ from_bytes_SignedTransaction(hex_decode(request.signed_transaction).value).ok
    /\ response = BadNetwork
    /\ gateway = <<>>

\* C2 (round trip payloads -> parse): the unsigned transaction payloads
\* returned for an accepted operations array, parsed with signed = false,
\* gives two operations with the Transfer's sender as the account of the
\* first, its receiver as the account of the second, its amount as the
\* values -amount and amount, and its currency symbol in both.
C2_RoundTrip ==
    Handled("parse") /\ carried.stage = "payloads" /\ RightNetwork /\ ~request.signed =>
        LET transfer == extract_transfer_from_operations(carried.request.operations).value
            ops == response.value.operations
        IN  /\ response.ok
            /\ Len(ops) = 2
            /\ parse_AccountAddress(ops[1].account[1].address) = Ok(transfer.sender)
            /\ parse_AccountAddress(ops[2].account[1].address) = Ok(transfer.receiver)
            /\ ops[1].amount[1].value = <<"-">> \o format_u64(transfer.amount)
            /\ ops[2].amount[1].value = format_u64(transfer.amount)
            /\ ops[1].amount[1].currency.symbol = transfer.currency
            /\ ops[2].amount[1].currency.symbol = transfer.currency

\* C6 (signing payload): payloads, when it succeeds, returns one
\* SigningPayload, for the transfer's sender, of the Ed25519 type, whose
\* bytes are the seed followed by the bytes returned as unsigned_transaction:
\* one raw transaction, of one expiration time, serialised the same twice.
C6_SigningPayload ==
    Handled("payloads") /\ response.ok =>
        LET transfer == extract_transfer_from_operations(request.operations)
            signing == response.value.payloads
            unsigned == hex_decode(response.value.unsigned_transaction)
        IN  /\ Len(signing) = 1
            /\ transfer.ok
            /\ parse_AccountAddress(signing[1].address) = Ok(transfer.value.sender)
            /\ signing[1].signature_type = Some("Ed25519")
            /\ unsigned.ok
            /\ hex_decode(signing[1].hex_bytes)
                  = Ok(RawTransactionHasher_seed \o unsigned.value)
            /\ from_bytes_RawTransaction(unsigned.value).ok
            /\ from_bytes_RawTransaction(unsigned.value).value.expiration_timestamp_secs
                  = now[1].value + 10

\* Payloads answered for a transfer, at a clock reading after the epoch.
C6_Witness ==
    /\ Handled("payloads")
    /\ response.ok
    /\ now = Some(Ok(1000))
    /\ Len(response.value.payloads) = 1

\* C7 (combine admission): combine returns a signed transaction only when
\* given exactly one signature, of type Ed25519 with a key of curve
\* Edwards25519; with none, with two or more, with another type or with
\* another curve it fails.
C7_CombineAdmission ==
    Handled("combine") =>
        LET signatures == request.signatures
        IN  \/ ~response.ok
            \/ /\ Len(signatures) = 1
               /\ signatures[1].signature_type = "Ed25519"
               /\ signatures[1].public_key.curve_type = "Edwards25519"

\* Two signatures of the right type, for a transaction that decodes: refused.
C7_Witness ==
    /\ Handled("combine")
    /\ RightNetwork
    /\ Len(request.signatures) = 2
    /\ request.signatures[1].signature_type = "Ed25519"
    /\ request.signatures[1].public_key.curve_type = "Edwards25519"
    /\ hex_decode(request.unsigned_transaction).ok
    /\ from_bytes_RawTransaction(hex_decode(request.unsigned_transaction).value).ok
    /\ ~response.ok

\* The raw transaction, key and signature of a combine request that is
\* well-formed in all of them, or None.
WellFormedCombine(req) ==
    LET raw_bytes == hex_decode(req.unsigned_transaction)
        signature == req.signatures[1]
        key == hex_decode(signature.public_key.hex_bytes)
        sig == hex_decode(signature.hex_bytes)
    IN  IF /\ raw_bytes.ok
           /\ from_bytes_RawTransaction(raw_bytes.value).ok
           /\ Len(req.signatures) = 1
           /\ signature.signature_type = "Ed25519"
           /\ signature.public_key.curve_type = "Edwards25519"
           /\ key.ok /\ Len(key.value) = 32 /\ Ed25519PublicKey_try_from(key.value).ok
           /\ sig.ok /\ Len(sig.value) = 64 /\ Ed25519Signature_try_from(sig.value).ok
        THEN Some([raw_transaction |-> from_bytes_RawTransaction(raw_bytes.value).value,
                   raw_bytes |-> raw_bytes.value,
                   public_key |-> key.value, signature |-> sig.value])
        ELSE None

\* The signature of a well-formed combine request is the signer's over the
\* transaction.
ValidlySigned(parts) ==
    Ed25519_verify(parts.public_key, RawTransactionHasher_seed \o parts.raw_bytes,
                   parts.signature)

\* C8 (combine does not verify): for a transaction that decodes and one
\* Ed25519/Edwards25519 signature with a well-formed key and well-formed
\* signature bytes, combine succeeds, the signature valid or not, with the
\* encoding of SignedTransaction{the raw transaction, the key, the
\* signature}; hash accepts what combine made; parse in signed mode answers
\* BadSignature to it when the signature is not valid.
C8_CombineDoesNotVerify ==
    /\ Handled("combine") /\ RightNetwork /\ WellFormedCombine(request) # None =>
          LET parts == WellFormedCombine(request)[1]
          IN  response =
                 Ok([signed_transaction |->
                       hex_encode(lcs_RawTransaction(parts.raw_transaction)
                                  \o <<0>> \o <<32>> \o parts.public_key
                                  \o <<64>> \o parts.signature)])
    /\ Handled("hash") /\ carried.stage = "combine" => response.ok
    /\ Handled("parse") /\ carried.stage = "combine" /\ request.signed
          /\ ~ValidlySigned(WellFormedCombine(carried.request)[1])
          => response = [ok |-> FALSE, error |-> "BadSignature", detail |-> ""]

\* A transaction combined with a forged signature, then refused by parse in
\* signed mode.
C8_Witness ==
    /\ Handled("parse")
    /\ carried.stage = "combine"
    /\ request.signed
    /\ ~ValidlySigned(WellFormedCombine(carried.request)[1])
    /\ response.error = "BadSignature"

\* The transaction of a parse request, decoded as the mode asks, or None.
DecodedSigned(req) ==
    IF hex_decode(req.transaction).ok
       /\ from_bytes_SignedTransaction(hex_decode(req.transaction).value).ok
    THEN Some(from_bytes_SignedTransaction(hex_decode(req.transaction).value).value)
    ELSE None

DecodedUnsigned(req) ==
    IF hex_decode(req.transaction).ok
       /\ from_bytes_RawTransaction(hex_decode(req.transaction).value).ok
    THEN Some(from_bytes_RawTransaction(hex_decode(req.transaction).value).value)
    ELSE None

\* C9 (parse signer list): in signed mode parse succeeds only for a
\* transaction whose signature verifies and whose authenticator is single-key
\* Ed25519: a signature that does not verify is answered BadSignature, and a
\* multi-signature authenticator (that got past the verification) is answered
\* BadSignatureType; on success the signers are exactly one AccountIdentifier
\* of the raw transaction's sender.  In unsigned mode the signers are always
\* empty and no signature is checked.
C9_ParseSigners ==
    Handled("parse") /\ RightNetwork =>
        IF request.signed
        THEN /\ response.ok => DecodedSigned(request) # None
             /\ DecodedSigned(request) # None =>
                   LET signed == DecodedSigned(request)[1]
                   IN  /\ ~check_signature(signed) =>
                             response = [ok |-> FALSE, error |-> "BadSignature",
                                         detail |-> ""]
                       /\ check_signature(signed)
                             /\ signed.authenticator.tag = "MultiEd25519" =>
                             response = [ok |-> FALSE, error |-> "BadSignatureType",
                                         detail |-> ""]
                       /\ response.ok =>
                             /\ check_signature(signed)
                             /\ signed.authenticator.tag = "Ed25519"
                             /\ response.value.account_identifier_signers
                                   = <<[address |-> hex_encode(signed.raw_txn.sender),
                                        sub_account |-> None]>>
        ELSE /\ response.ok => response.value.account_identifier_signers = <<>>
             /\ ~response.ok => response.error \notin {"BadSignature", "BadSignatureType"}

\* A signed transfer parsed in signed mode, with its one signer.
C9_Witness ==
    /\ Handled("parse")
    /\ RightNetwork
    /\ request.signed
    /\ response.ok
    /\ Len(response.value.account_identifier_signers) = 1

\* The transaction parse filters the payload of: the decoded one, in signed
\* mode once its signature and its scheme have passed.
Filtered(req) ==
    IF req.signed
    THEN IF DecodedSigned(req) # None
            /\ check_signature(DecodedSigned(req)[1])
            /\ DecodedSigned(req)[1].authenticator.tag = "Ed25519"
         THEN Some(DecodedSigned(req)[1].raw_txn)
         ELSE None
    ELSE DecodedUnsigned(req)

\* A script with the code of peer_to_peer_with_metadata, a type argument and
\* the arguments of a transfer.
IsTransferScript(script) ==
    /\ script.code = PEER_TO_PEER_WITH_METADATA_CODE
    /\ Len(script.ty_args) >= 1
    /\ Len(script.args) >= 4
    /\ script.args[1].tag = "Address"
    /\ script.args[2].tag = "U64"
    /\ script.args[3].tag = "U8Vector"
    /\ script.args[4].tag = "U8Vector"

SupportedCoin ==
    [tag |-> "Struct", address |-> CORE_CODE_ADDRESS, module |-> Coin1, name |-> Coin1,
     type_params |-> <<>>]

Refused(kind) == response = [ok |-> FALSE, error |-> kind, detail |-> ""]

\* C10 (parse payload filter): in both modes parse returns operations only
\* for a payload that is a script, decoding as a peer-to-peer-with-metadata
\* transfer, in the one supported currency type; a payload that is no script
\* is answered BadTransactionPayload, a script of another kind
\* BadTransactionScript, a transfer in another currency type BadCoin, and
\* none of these answers holds operations.
C10_ParsePayloadFilter ==
    Handled("parse") /\ RightNetwork =>
        /\ response.ok => Filtered(request) # None
        /\ ~response.ok => DOMAIN response = {"ok", "error", "detail"}
        /\ Filtered(request) # None =>
              LET payload == Filtered(request)[1].payload
              IN  /\ payload.tag # "Script" => Refused("BadTransactionPayload")
                  /\ payload.tag = "Script" /\ ~IsTransferScript(payload.script)
                        => Refused("BadTransactionScript")
                  /\ payload.tag = "Script" /\ IsTransferScript(payload.script)
                        /\ payload.script.ty_args[1] # SupportedCoin
                        => Refused("BadCoin")
                  /\ response.ok =>
                        /\ payload.tag = "Script"
                        /\ IsTransferScript(payload.script)
                        /\ payload.script.ty_args[1] = SupportedCoin
                        /\ Len(response.value.operations) = 2

\* A verified transfer in another currency type, refused in signed mode.
C10_Witness ==
    /\ Handled("parse")
    /\ RightNetwork
    /\ request.signed
    /\ Filtered(request) # None
    /\ Filtered(request)[1].payload.tag = "Script"
    /\ IsTransferScript(Filtered(request)[1].payload.script)
    /\ Refused("BadCoin")

\* The transfer a parsed transaction makes: its payee and its amount.
ParsedCall(req) == ScriptCall_decode(Filtered(req)[1].payload.script)[1]

\* An operation's account and amount, as parse fills them in.
OperationOf(op, index, type_, address, value) ==
    /\ op.operation_identifier = [index |-> index, network_index |-> None]
    /\ op.type_ = type_
    /\ op.account = <<[address |-> hex_encode(address), sub_account |-> None]>>
    /\ op.amount = <<[value |-> value, currency |-> [symbol |-> Coin1, decimals |-> 6]]>>

\* C11 (parse output shape): every successful parse returns exactly two
\* operations: at index 0 a sentpayment on the sender's account whose value
\* is "-" followed by the amount, with no related operations; at index 1 a
\* receivedpayment on the payee's account whose value is the amount, with
\* related operations [0]; both in currency Coin1 with 6 decimals.
C11_ParseOutputShape ==
    Handled("parse") /\ RightNetwork /\ response.ok =>
        LET ops == response.value.operations
            raw == Filtered(request)[1]
            call == ParsedCall(request)
        IN  /\ Len(ops) = 2
            /\ OperationOf(ops[1], 0, "sentpayment", raw.sender,
                           <<"-">> \o format_u64(call.amount))
            /\ ops[1].related_operations = None
            /\ OperationOf(ops[2], 1, "receivedpayment", call.payee,
                           format_u64(call.amount))
            /\ ops[2].related_operations = Some(<<[index |-> 0, network_index |-> None]>>)

\* A signed transfer of a positive amount to another account, parsed.
C11_Witness ==
    /\ Handled("parse")
    /\ RightNetwork
    /\ response.ok
    /\ request.signed
    /\ ParsedCall(request).amount > 0
    /\ ParsedCall(request).payee # Filtered(request)[1].sender
    /\ Len(response.value.operations) = 2

\* The raw transaction a payloads answer holds, decoded from its hex text.
BuiltTransaction == from_bytes_RawTransaction(hex_decode(response.value.unsigned_transaction).value)

\* C12 (raw transaction assembly): the raw transaction payloads builds has
\* the transfer's sender, the sequence_number and chain_id of the request's
\* metadata, max_gas_amount 10000, gas_unit_price 0, the transfer's currency
\* symbol as gas_currency_code, an expiration of the clock reading in whole
\* seconds plus 10, and a peer-to-peer script with the transfer's receiver
\* and amount and empty metadata.
C12_RawTransactionAssembly ==
    Handled("payloads") /\ response.ok =>
        LET transfer == extract_transfer_from_operations(request.operations).value
            raw == BuiltTransaction.value
            script == raw.payload.script
        IN  /\ hex_decode(response.value.unsigned_transaction).ok
            /\ BuiltTransaction.ok
            /\ raw.sender = transfer.sender
            /\ raw.sequence_number = request.metadata.sequence_number
            /\ raw.chain_id = request.metadata.chain_id
            /\ raw.max_gas_amount = 10000
            /\ raw.gas_unit_price = 0
            /\ raw.gas_currency_code = transfer.currency
            /\ raw.expiration_timestamp_secs = now[1].value + 10
            /\ raw.payload.tag = "Script"
            /\ script.code = PEER_TO_PEER_WITH_METADATA_CODE
            /\ Len(script.args) = 4
            /\ script.args[1] = [tag |-> "Address", v |-> transfer.receiver]
            /\ script.args[2] = [tag |-> "U64", v |-> transfer.amount]
            /\ script.args[3] = [tag |-> "U8Vector", v |-> <<>>]
            /\ script.args[4] = [tag |-> "U8Vector", v |-> <<>>]

\* Payloads answered for a transfer in another currency than Coin1, with
\* metadata the metadata stage returned.
C12_Witness ==
    /\ Handled("payloads")
    /\ response.ok
    /\ carried.stage = "metadata"
    /\ request.metadata = carried.response.value.metadata
    /\ BuiltTransaction.ok
    /\ BuiltTransaction.value.gas_currency_code = LBR
    /\ BuiltTransaction.value.sender # BuiltTransaction.value.payload.script.args[1].v

(***************************************************************************)
(* Requests handled concurrently.  The server runs every request as a task *)
(* of its own: the task owns the request body, a clone of the options and, *)
(* in metadata and submit, a gateway client made for it.  Here request,    *)
(* response, pc, gateway, replies and now hold one value per task; a task  *)
(* stops between sending its gateway call and resuming with the reply, and *)
(* the gateway answers the calls in any order.                             *)
(***************************************************************************)
MaxTasks == 2

Tasks == 1..MaxTasks

\* The same hex text in upper case.
UpperHex(text) == [i \in 1..Len(text) |-> HexUpper[HexVal(text[i]) + 1]]

TransferText(amt) ==
    hex_encode(lcs_SignedTransaction(
        SignedBy(RawSample([tag |-> "Script", script |-> TransferScript(coin1_tmp_tag, amt)]),
                 KeyK)))

TaskTransfer ==
    <<Sent(TextA, <<"-", "5">>, Currency(Coin1, 6)),
      Received(TextB, <<"5">>, Currency(Coin1, 6))>>

TaskRequests ==
    {[stage |-> "derive", network_identifier |-> GoodNetwork,
      public_key |-> [hex_bytes |-> hex_encode(KeyK), curve_type |-> "Edwards25519"]],
     PreprocessRequest(GoodNetwork, TaskTransfer),
     MetadataRequest(GoodNetwork, [sender_address |-> TextA]),
     PayloadsRequest(GoodNetwork, TaskTransfer, [chain_id |-> 4, sequence_number |-> 7]),
     ParseRequest(GoodNetwork, TRUE, TransferText(5)),
     CombineRequest(GoodNetwork, <<"0", "1">>, <<>>),
     HashRequest(GoodNetwork, TransferText(5)),
     HashRequest(GoodNetwork, UpperHex(TransferText(5))),
     HashRequest(GoodNetwork, TransferText(0)),
     HashRequest(GoodNetwork, <<"0", "1">>),
     SubmitRequest(GoodNetwork, TransferText(5))}

TaskClockReadings == {Ok(0), Ok(1000)}

TaskReplies(stage) ==
    IF stage = "metadata"
    THEN {Err("transport", ""),
          Ok(<<AccountResponse(None), MetadataViewResponse(MetadataView(4))>>),
          Ok(<<AccountResponse(Some(AccountView(7))), MetadataViewResponse(MetadataView(4))>>)}
    ELSE {Err("transport", ""), Ok(<<SubmissionResponse>>)}

\* The handler of the request's route, run up to its gateway call or, when
\* it makes none, to its response.
run_to_await(req, reading) ==
    CASE req.stage = "derive" -> [done |-> TRUE, response |-> derive(req)]
      [] req.stage = "preprocess" -> [done |-> TRUE, response |-> preprocess(req)]
      [] req.stage = "metadata" -> metadata_before_call(req)
      [] req.stage = "payloads" -> [done |-> TRUE, response |-> payloads(req, reading)]
      [] req.stage = "parse" -> [done |-> TRUE, response |-> parse(req)]
      [] req.stage = "combine" -> [done |-> TRUE, response |-> combine(req)]
      [] req.stage = "hash" -> [done |-> TRUE, response |-> hash(req)]
      [] req.stage = "submit" -> submit_before_call(req)

\* The same handler, from the reply to its gateway call on.
run_from_await(req, reply) ==
    IF req.stage = "metadata" THEN metadata_after_call(reply)
    ELSE submit_after_call(req, reply)

\* One reply slot for all tasks: a task resumes with whatever reply is there.
shared_reply(answers, t) == answers[CHOOSE u \in DOMAIN answers : answers[u] # <<>>][1]

\* The reply a task resumes with: the one to the call of its own client.
own_reply(answers, t) == answers[t][1]

InitTasks ==
    /\ request = [t \in Tasks |-> NoRequest]
    /\ response = [t \in Tasks |-> NoResponse]
    /\ pc = [t \in Tasks |-> "idle"]
    /\ gateway = [t \in Tasks |-> <<>>]
    /\ replies = [t \in Tasks |-> <<>>]
    /\ now = [t \in Tasks |-> None]
    /\ carried = Fresh

\* The clock readings a task can take: only payloads reads the clock.
ReadingsFor(req) == IF req.stage = "payloads" THEN TaskClockReadings ELSE {Ok(0)}

\* A request arrives and its task runs up to the gateway call or to the end.
Accept(t) ==
    /\ pc[t] = "idle"
    /\ \E req \in TaskRequests :
        \E reading \in ReadingsFor(req) :
        \E step \in {run_to_await(req, reading)} :
          /\ request' = [request EXCEPT ![t] = req]
          /\ now' = [now EXCEPT ![t] = IF req.stage = "payloads" /\ reads_clock(req)
                                       THEN Some(reading) ELSE None]
          /\ response' = [response EXCEPT ![t] =
                            IF step.done THEN step.response ELSE NoResponse]
          /\ pc' = [pc EXCEPT ![t] = IF step.done THEN "done" ELSE "called"]
          /\ gateway' = [gateway EXCEPT ![t] = IF step.done THEN <<>> ELSE <<step.batch>>]
          /\ UNCHANGED <<replies, carried>>

\* The gateway answers the call of a task.
GatewayAnswer(t) ==
    /\ pc[t] = "called"
    /\ \E reply \in TaskReplies(request[t].stage) :
          replies' = [replies EXCEPT ![t] = <<reply>>]
    /\ pc' = [pc EXCEPT ![t] = "answered"]
    /\ UNCHANGED <<request, response, gateway, now, carried>>

\* The task resumes with the reply and runs to its response.
Resume(t) ==
    /\ pc[t] = "answered"
    /\ response' = [response EXCEPT ![t] = run_from_await(request[t], own_reply(replies, t))]
    /\ pc' = [pc EXCEPT ![t] = "done"]
    /\ UNCHANGED <<request, gateway, replies, now, carried>>

\* The response is sent and the task ends.
Respond(t) ==
    /\ pc[t] = "done"
    /\ request' = [request EXCEPT ![t] = NoRequest]
    /\ response' = [response EXCEPT ![t] = NoResponse]
    /\ pc' = [pc EXCEPT ![t] = "idle"]
    /\ gateway' = [gateway EXCEPT ![t] = <<>>]
    /\ replies' = [replies EXCEPT ![t] = <<>>]
    /\ now' = [now EXCEPT ![t] = None]
    /\ UNCHANGED carried

NextTasks == \E t \in Tasks : Accept(t) \/ GatewayAnswer(t) \/ Resume(t) \/ Respond(t)

SpecTasks == InitTasks /\ [][NextTasks]_vars

\* The response a request gets when it is the only one the server handles,
\* with the given gateway replies and clock reading.
Alone(req, answers, reading) ==
    CASE req.stage = "derive" -> derive(req)
      [] req.stage = "preprocess" -> preprocess(req)
      [] req.stage = "metadata" ->
            IF metadata_before_call(req).done THEN metadata_before_call(req).response
            ELSE metadata_after_call(answers[1])
      [] req.stage = "payloads" ->
            payloads(req, IF reading = None THEN Ok(0) ELSE reading[1])
      [] req.stage = "parse" -> parse(req)
      [] req.stage = "combine" -> combine(req)
      [] req.stage = "hash" -> hash(req)
      [] req.stage = "submit" ->
            IF submit_before_call(req).done THEN submit_before_call(req).response
            ELSE submit_after_call(req, answers[1])

\* All the server holds of a task.
TaskState(t) == <<request[t], response[t], pc[t], gateway[t], replies[t], now[t]>>

\* C13 (request independence): in every interleaving of concurrently
\* handled requests, a request's response is the one it gets alone with the
\* same gateway replies and clock reading, whatever the other tasks do and
\* whatever was handled before; and a step of one task leaves all that the
\* server holds of the other tasks as it was.
C13_RequestIndependence ==
    /\ [](\A t \in Tasks : pc[t] = "done" =>
              response[t] = Alone(request[t], replies[t], now[t]))
    /\ [][\E t \in Tasks : \A u \in Tasks \ {t} : TaskState(u)' = TaskState(u)]_vars

\* Two concurrent metadata requests for the same account that the gateway
\* answered differently: one has its metadata, the other no account.
C13_Witness ==
    /\ pc[1] = "done"
    /\ pc[2] = "done"
    /\ request[1].stage = "metadata"
    /\ request[2] = request[1]
    /\ replies[1] # replies[2]
    /\ response[1].ok
    /\ ~response[2].ok
    /\ response[2].error = "AccountNotFound"

\* A reply to the account-and-metadata batch that holds both results: the
\* account (or no account) first, the chain metadata second.
BothResults(reply) ==
    /\ reply.ok
    /\ Len(reply.value) = 2
    /\ reply.value[1].ok
    /\ reply.value[2].ok
    /\ reply.value[1].value.tag = "AccountResponse"
    /\ reply.value[2].value.tag = "MetadataViewResponse"

\* The metadata stage's answer to a gateway reply.
MetadataAnswers(reply) ==
    IF ~BothResults(reply) THEN ~response.ok /\ response.error = "GatewayFailure"
    ELSE IF reply.value[1].value.account = None THEN Refused("AccountNotFound")
    ELSE response =
            Ok([metadata |->
                  [chain_id |-> reply.value[2].value.metadata.chain_id,
                   sequence_number |-> reply.value[1].value.account[1].sequence_number]])

\* C14 (metadata stage): a metadata request that passes the gate makes at
\* most one gateway call, the batch of one account query and one metadata
\* query, and its next step after the call is its response: nothing is sent
\* again.  A failed call is answered with the gateway failure, a reply with
\* no account at the address with AccountNotFound, and any other reply with
\* the chain_id of its metadata and the sequence_number of its account.
C14_MetadataStage ==
    /\ [](request.stage = "metadata" /\ RightNetwork =>
            /\ Len(gateway) <= 1
            /\ Len(replies) <= Len(gateway)
            /\ pc = "metadata_await" => Len(gateway) = 1 /\ replies = <<>>
            /\ gateway # <<>> =>
                  /\ Len(gateway[1]) = 2
                  /\ gateway[1][1].method = "get_account"
                  /\ hex_decode(request.options.sender_address) = Ok(gateway[1][1].address)
                  /\ gateway[1][2].method = "get_metadata"
            /\ pc = "done" =>
                  IF gateway = <<>> THEN ~response.ok /\ response.error = "GatewayFailure"
                  ELSE Len(replies) = 1 /\ MetadataAnswers(replies[1]))
    /\ [][pc = "metadata_await" =>
            pc' = "done" /\ request' = request /\ gateway' = gateway]_vars

\* Metadata answered from a reply that holds an account and the metadata.
C14_Witness ==
    /\ Handled("metadata")
    /\ RightNetwork
    /\ Len(gateway) = 1
    /\ replies = <<Ok(<<AccountResponse(Some(AccountView(0))),
                        MetadataViewResponse(MetadataView(2))>>)>>
    /\ response = Ok([metadata |-> [chain_id |-> 2, sequence_number |-> 0]])

\* A hash request that passed the gate and was answered, in task t.
Hashed(t) ==
    /\ pc[t] = "done"
    /\ request[t].stage = "hash"
    /\ ~bad_network(request[t].network_identifier)

\* C15 (hash determinism): two hash requests that pass the gate with the
\* same signed_transaction bytes have the same outcome, the same identifier
\* or the same failure, whatever other requests the server handled before
\* them or handles between them.
C15_HashDeterminism ==
    \A t \in Tasks, u \in Tasks :
        /\ Hashed(t)
        /\ Hashed(u)
        /\ hex_decode(request[t].signed_transaction) = hex_decode(request[u].signed_transaction)
        => response[t] = response[u]

\* Two answered hash requests whose texts differ in letter case and encode
\* the same bytes of a signed transaction.
C15_Witness ==
    /\ Hashed(1)
    /\ Hashed(2)
    /\ request[1].signed_transaction # request[2].signed_transaction
    /\ hex_decode(request[1].signed_transaction) = hex_decode(request[2].signed_transaction)
    /\ response[1].ok
    /\ response[2].ok

\* The send side and the receive side of an array that has one of each.
SendSide(ops) == IF ops[1].type_ = "sentpayment" THEN ops[1] ELSE ops[2]
RecvSide(ops) == IF ops[1].type_ = "sentpayment" THEN ops[2] ELSE ops[1]

\* The checks of an extraction, numbered in the order of the claim; checks 5
\* and 6 are the two value parses, 9 and 10 the two address parses.  A check
\* is looked at only for an array that passed the checks before it.
Violates(k, ops) ==
    CASE k = 1 -> Len(ops) # 2
      [] k = 2 -> {ops[1].type_, ops[2].type_} # {"sentpayment", "receivedpayment"}
      [] k = 3 -> ~(Complete(ops[1]) /\ Complete(ops[2]))
      [] k = 4 -> SendSide(ops).amount[1].currency # RecvSide(ops).amount[1].currency
      [] k = 5 -> ~Value_from_str(SendSide(ops).amount[1].value).ok
      [] k = 6 -> ~Value_from_str(RecvSide(ops).amount[1].value).ok
      [] k = 7 -> Value_from_str(SendSide(ops).amount[1].value).value.tag # "Debit"
      [] k = 8 -> ~(/\ Value_from_str(RecvSide(ops).amount[1].value).value.tag = "Credit"
                    /\ Value_from_str(SendSide(ops).amount[1].value).value.v
                          = Value_from_str(RecvSide(ops).amount[1].value).value.v)
      [] k = 9 -> ~parse_AccountAddress(SendSide(ops).account[1].address).ok
      [] k = 10 -> ~parse_AccountAddress(RecvSide(ops).account[1].address).ok

\* The reason an extraction gives for a violation of check k.
ReasonOf(k, ops) ==
    CASE k = 1 -> "wrong number of ops"
      [] k = 2 -> "operations don't represent a transfer"
      [] k = 3 -> "accounts/amounts missing"
      [] k = 4 -> "mismatched currencies in ops"
      [] k = 5 -> Value_from_str(SendSide(ops).amount[1].value).detail
      [] k = 6 -> Value_from_str(RecvSide(ops).amount[1].value).detail
      [] k = 7 -> "can't send negative amounts"
      [] k = 8 -> "send and recv amounts don't net out"
      [] k = 9 -> parse_AccountAddress(SendSide(ops).account[1].address).detail
      [] k = 10 -> parse_AccountAddress(RecvSide(ops).account[1].address).detail

RECURSIVE FirstViolated(_, _)
\* The first check from k on that the array violates, or 0.
FirstViolated(k, ops) ==
    IF k > 10 THEN 0
    ELSE IF Violates(k, ops) THEN k
    ELSE FirstViolated(k + 1, ops)

\* The checks after the first violated one that can be looked at without
\* the ones between them having passed.
AlsoViolated(ops) ==
    {k \in 5..10 : /\ FirstViolated(1, ops) = 4
                   /\ k \in {7, 8} => ~Violates(5, ops) /\ ~Violates(6, ops)
                   /\ k = 8 => ~Violates(7, ops)
                   /\ Violates(k, ops)}

\* C16 (extraction check precedence): the checks are made in the order
\* length, type pair, accounts and amounts present, currencies equal, send
\* value parses, receive value parses, send value is a debit, values
\* reconcile, sender address parses, receiver address parses; an array is
\* rejected with the reason of the first check it violates, whatever later
\* checks it violates too, and accepted when it violates none.
C16_ExtractionPrecedence ==
    Extracted =>
        LET k == FirstViolated(1, request.operations)
        IN  IF k = 0 THEN response.ok
            ELSE /\ ~response.ok
                 /\ response.detail = ReasonOf(k, request.operations)

\* An array whose currencies differ, whose send value does not parse and
\* whose receiver address does not parse either, rejected for the currencies.
C16_Witness ==
    /\ Extracted
    /\ FirstViolated(1, request.operations) = 4
    /\ {5, 10} \subseteq AlsoViolated(request.operations)
    /\ response.detail = "mismatched currencies in ops"

\* C17 (combine check precedence): a combine request that passes the gate
\* with a number of signatures other than one is answered BadSignatureCount,
\* and one with a single signature of another type or curve
\* BadSignatureType, whether or not its unsigned_transaction, its public key
\* and its signature bytes are well-formed.
C17_CombinePrecedence ==
    Handled("combine") /\ RightNetwork =>
        /\ Len(request.signatures) # 1 => Refused("BadSignatureCount")
        /\ Len(request.signatures) = 1
              /\ ~(/\ request.signatures[1].signature_type = "Ed25519"
                   /\ request.signatures[1].public_key.curve_type = "Edwards25519")
              => Refused("BadSignatureType")

\* The signed transaction of a submit or hash request decodes.
DecodesSigned(req) ==
    /\ hex_decode(req.signed_transaction).ok
    /\ from_bytes_SignedTransaction(hex_decode(req.signed_transaction).value).ok

\* The gateway acknowledged a submission: one result, a SubmissionResponse.
Acknowledged(reply) ==
    /\ reply.ok
    /\ Len(reply.value) = 1
    /\ reply.value[1].ok
    /\ reply.value[1].value.tag = "SubmissionResponse"

\* C18 (submit ordering): submit sends the transaction to the gateway only
\* when the gate and the decoding of the signed bytes have passed, and then
\* exactly once: its next step after the call is its response.  It returns
\* a transaction identifier only when the gateway acknowledged the
\* submission, and a failure without identifier otherwise; the identifier is
\* the one hash returns for the same signed_transaction.
C18_SubmitOrdering ==
    /\ [](request.stage = "submit" =>
            /\ Len(gateway) = IF RightNetwork /\ DecodesSigned(request) THEN 1 ELSE 0
            /\ Len(replies) <= Len(gateway)
            /\ gateway # <<>> =>
                  gateway[1] = <<[method |-> "submit",
                                  transaction |-> from_bytes_SignedTransaction(
                                      hex_decode(request.signed_transaction).value).value]>>
            /\ pc = "submit_await" => replies = <<>>
            /\ pc = "done" =>
                  IF gateway # <<>> /\ Acknowledged(replies[1])
                  THEN response = hash(HashRequest(request.network_identifier,
                                                   request.signed_transaction))
                  ELSE ~response.ok /\ DOMAIN response = {"ok", "error", "detail"})
    /\ [][pc = "submit_await" =>
            pc' = "done" /\ request' = request /\ gateway' = gateway]_vars

\* A transaction that combine returned, submitted and acknowledged.
C18_Witness ==
    /\ Handled("submit")
    /\ carried.stage = "combine"
    /\ Len(gateway) = 1
    /\ replies = <<Ok(<<SubmissionResponse>>)>>
    /\ response.ok
    /\ Len(response.value.transaction_identifier.hash) = 2 * HASH_LENGTH

\* C19 (parse, then extraction): the two operations of any successful
\* parse, in signed or unsigned mode and for any amount, 0 included, are
\* accepted by extract_transfer_from_operations, and the Transfer has the
\* transaction's sender, the script's payee as receiver, the script's amount
\* and the currency Coin1.
C19_ParseThenExtract ==
    Handled("parse") /\ RightNetwork /\ response.ok =>
        extract_transfer_from_operations(response.value.operations)
            = Ok([sender |-> Filtered(request)[1].sender,
                  receiver |-> ParsedCall(request).payee,
                  amount |-> ParsedCall(request).amount,
                  currency |-> Coin1])

\* The operations parse returned for a transfer of amount 0, handed to
\* preprocess and accepted.
C19_Witness ==
    /\ Handled("preprocess")
    /\ carried.stage = "parse"
    /\ ParsedCall(carried.request).amount = 0
    /\ request.operations = carried.response.value.operations
    /\ response.ok

(***************************************************************************)
(* The read-through handlers of account.rs and network.rs, and the chain   *)
(* client's calls they make.  A handler makes its calls one after another  *)
(* and stops at each for the gateway's reply; it is written here as a      *)
(* function of the request and of the replies received so far, that gives  *)
(* the next call to make or the response.                                  *)
(***************************************************************************)
Await(batch) == [done |-> FALSE, batch |-> batch]
Return(resp) == [done |-> TRUE, response |-> resp]

\* The one result of a batch of one request: the transport must succeed,
\* there must be one result, and it must be no error.
single_result(reply) ==
    IF ~reply.ok THEN LibraError("JsonRpcResponse")
    ELSE IF Len(reply.value) # 1 THEN LibraError("UnexpectedResponse")
    ELSE IF ~reply.value[1].ok THEN LibraError("JsonRpcResponse")
    ELSE Ok(reply.value[1].value)

get_metadata_batch(version) == <<[method |-> "get_metadata", version |-> version]>>

get_metadata_result(reply) ==
    IF ~single_result(reply).ok THEN single_result(reply)
    ELSE IF single_result(reply).value.tag = "MetadataViewResponse"
         THEN Ok(single_result(reply).value.metadata)
    ELSE LibraError("UnexpectedResponse")

get_transactions_batch(start_version, limit, include_events) ==
    <<[method |-> "get_transactions", start_version |-> start_version,
       limit |-> limit, include_events |-> include_events]>>

\* The views as the node returned them: none, when it has no transaction at
\* the version asked for.
get_transactions_result(reply) ==
    IF ~single_result(reply).ok THEN single_result(reply)
    ELSE IF single_result(reply).value.tag = "TransactionsResponse"
         THEN Ok(single_result(reply).value.views)
    ELSE LibraError("UnexpectedResponse")

get_network_status_batch == <<[method |-> "get_network_status"]>>

\* peer_count.as_u64() is None for a number that is negative.
get_network_status_result(reply) ==
    IF ~single_result(reply).ok THEN single_result(reply)
    ELSE IF single_result(reply).value.tag = "NetworkStatusResponse"
         THEN IF single_result(reply).value.peer_count >= 0
              THEN Ok(single_result(reply).value.peer_count)
              ELSE LibraError("UnexpectedResponse")
    ELSE LibraError("UnexpectedResponse")

\* tx[0] of a vector: a panic when the vector is empty.
index_out_of_bounds == Panic("index out of bounds: the len is 0 but the index is 0")

account_balance(account_balance_request, answers) ==
    IF bad_network(account_balance_request.network_identifier)
        THEN Return(ApiError("BadNetwork"))
    ELSE IF account_balance_request.block_identifier # None
        THEN Return(ApiError("HistoricBalancesUnsupported"))
    ELSE LET address == account_balance_request.account_identifier.address
             batch == get_account_with_metadata_batch(address)
             account_metadata == get_account_with_metadata_result(answers[1])
             account == account_metadata.value.account[1]
             metadata == account_metadata.value.metadata
             tx == get_transactions_result(answers[2])
         IN  IF ~batch.ok THEN Return(ApiError_from_LibraError(batch))
             ELSE IF Len(answers) = 0 THEN Await(batch.value)
             ELSE IF ~account_metadata.ok
                 THEN Return(ApiError_from_LibraError(account_metadata))
             ELSE IF account_metadata.value.account = None
                 THEN Return(ApiError("AccountNotFound"))
             ELSE IF Len(answers) = 1
                 THEN Await(get_transactions_batch(metadata.version, 1, FALSE))
             ELSE IF ~tx.ok THEN Return(ApiError_from_LibraError(tx))
             ELSE IF Len(tx.value) = 0 THEN Return(index_out_of_bounds)
             ELSE Return(Ok(
                    [block_identifier |->
                        [index |-> tx.value[1].version, hash |-> tx.value[1].hash],
                     balances |->
                        [i \in 1..Len(account.balances) |->
                            Amount(format_u64(account.balances[i].amount),
                                   Currency(account.balances[i].currency, 6))]]))

network_status(network_request, answers) ==
    IF bad_network(network_request.network_identifier)
        THEN Return(ApiError("BadNetwork"))
    ELSE LET metadata == get_metadata_result(answers[1])
             genesis_tx == get_transactions_result(answers[2])
             latest_tx == get_transactions_result(answers[3])
             num_peers == get_network_status_result(answers[4])
         IN  IF Len(answers) = 0 THEN Await(get_metadata_batch(None))
             ELSE IF ~metadata.ok THEN Return(ApiError_from_LibraError(metadata))
             ELSE IF Len(answers) = 1 THEN Await(get_transactions_batch(0, 1, FALSE))
             ELSE IF ~genesis_tx.ok THEN Return(ApiError_from_LibraError(genesis_tx))
             ELSE IF Len(answers) = 2
                 THEN Await(get_transactions_batch(metadata.value.version, 1, FALSE))
             ELSE IF ~latest_tx.ok THEN Return(ApiError_from_LibraError(latest_tx))
             ELSE IF Len(answers) = 3 THEN Await(get_network_status_batch)
             ELSE IF ~num_peers.ok THEN Return(ApiError_from_LibraError(num_peers))
             ELSE IF Len(genesis_tx.value) = 0 THEN Return(index_out_of_bounds)
             ELSE IF Len(latest_tx.value) = 0 THEN Return(index_out_of_bounds)
             ELSE Return(Ok(
                    [current_block_identifier |->
                        [index |-> latest_tx.value[1].version,
                         hash |-> latest_tx.value[1].hash],
                     current_block_timestamp |-> metadata.value.timestamp \div 1000,
                     genesis_block_identifier |->
                        [index |-> genesis_tx.value[1].version,
                         hash |-> genesis_tx.value[1].hash],
                     peers |-> [i \in 1..num_peers.value |->
                                   [peer_id |-> <<"p", "e", "e", "r">> \o format_u64(i - 1)]]]))

\* Requests and replies of the node.
AccountBalanceRequests ==
    {[stage |-> "account_balance", network_identifier |-> n,
      account_identifier |-> AccountIdentifier(a), block_identifier |-> b] :
        n \in NetworkIdentifiers, a \in {TextA, TextB, TextNoHex},
        b \in {None, Some([index |-> Some(1), hash |-> None])}}

NetworkRequests ==
    {[stage |-> "network_status", network_identifier |-> n] : n \in NetworkIdentifiers}

AccountWithBalances ==
    [sequence_number |-> 7,
     balances |-> <<[amount |-> 12, currency |-> Coin1], [amount |-> 0, currency |-> LBR]>>]

TransactionView(version) == [version |-> version, hash |-> <<"a", "b">>]
TransactionsResponse(views) == Ok([tag |-> "TransactionsResponse", views |-> views])
NetworkStatusResponse(peer_count) ==
    Ok([tag |-> "NetworkStatusResponse", peer_count |-> peer_count])

AccountReplies ==
    AccountMetadataReplies \cup
    {Ok(<<AccountResponse(Some(AccountWithBalances)), MetadataViewResponse(MetadataView(4))>>)}

MetadataReplies ==
    {Err("transport", ""), Ok(<<>>), Ok(<<RpcError>>), Ok(<<SubmissionResponse>>),
     Ok(<<MetadataViewResponse(MetadataView(4))>>)}

TransactionsReplies ==
    {Err("transport", ""), Ok(<<RpcError>>), Ok(<<SubmissionResponse>>),
     Ok(<<TransactionsResponse(<<>>)>>),
     Ok(<<TransactionsResponse(<<TransactionView(100)>>)>>),
     Ok(<<TransactionsResponse(<<>>), TransactionsResponse(<<>>)>>)}

NetworkStatusReplies ==
    {Err("transport", ""), Ok(<<RpcError>>), Ok(<<SubmissionResponse>>),
     Ok(<<NetworkStatusResponse(0)>>), Ok(<<NetworkStatusResponse(2)>>),
     Ok(<<NetworkStatusResponse(-1)>>)}

\* What the gateway can answer to a call.
RepliesTo(batch) ==
    IF Len(batch) = 2 THEN AccountReplies
    ELSE IF batch[1].method = "get_metadata" THEN MetadataReplies
    ELSE IF batch[1].method = "get_transactions" THEN TransactionsReplies
    ELSE NetworkStatusReplies

\* A handler's step: its response, or its next call.
Step(req, step) ==
    /\ request' = req
    /\ now' = None
    /\ carried' = Fresh
    /\ IF step.done
       THEN response' = step.response /\ pc' = "done" /\ gateway' = gateway
       ELSE response' = NoResponse /\ pc' = "await" /\ gateway' = Append(gateway, step.batch)

AccountBalance ==
    /\ Ready
    /\ replies' = <<>>
    /\ \E req \in AccountBalanceRequests : Step(req, account_balance(req, <<>>))

AccountBalanceReply ==
    /\ pc = "await"
    /\ request.stage = "account_balance"
    /\ \E reply \in RepliesTo(gateway[Len(gateway)]) :
          /\ replies' = Append(replies, reply)
          /\ Step(request, account_balance(request, Append(replies, reply)))

NetworkStatus ==
    /\ Ready
    /\ replies' = <<>>
    /\ \E req \in NetworkRequests : Step(req, network_status(req, <<>>))

NetworkStatusReply ==
    /\ pc = "await"
    /\ request.stage = "network_status"
    /\ \E reply \in RepliesTo(gateway[Len(gateway)]) :
          /\ replies' = Append(replies, reply)
          /\ Step(request, network_status(request, Append(replies, reply)))

(***************************************************************************)
(* The statuses of a transaction's execution, as the chain client names    *)
(* them, and network_options, which advertises them.                       *)
(***************************************************************************)
VMStatusViews ==
    {[tag |-> "Executed"], [tag |-> "OutOfGas"],
     [tag |-> "MoveAbort", location |-> <<"S", "c", "r", "i", "p", "t">>, abort_code |-> 5],
     [tag |-> "ExecutionFailure", location |-> <<"S", "c", "r", "i", "p", "t">>,
      function_index |-> 0, code_offset |-> 3],
     [tag |-> "MiscellaneousError"]}

vmstatus_to_str(vm_status) ==
    CASE vm_status.tag = "Executed" -> "executed"
      [] vm_status.tag = "OutOfGas" -> "out-of-gas"
      [] vm_status.tag = "MoveAbort" -> "move-abort"
      [] vm_status.tag = "ExecutionFailure" -> "execution-failure"
      [] vm_status.tag = "MiscellaneousError" -> "miscellaneous-error"

vmstatus_all_strs ==
    <<"executed", "out-of-gas", "move-abort", "execution-failure",
      "verification-error", "deserializaton-error", "publishing-failure">>

network_options(network_request) ==
    IF bad_network(network_request.network_identifier) THEN ApiError("BadNetwork")
    ELSE Ok([version |->
                [rosetta_version |-> "ROSETTA_VERSION", node_version |-> "NODE_VERSION",
                 middleware_version |-> "MIDDLEWARE_VERSION"],
             allow |->
                [operation_statuses |->
                    [i \in 1..Len(vmstatus_all_strs) |->
                        [status |-> vmstatus_all_strs[i],
                         successful |-> vmstatus_all_strs[i] = "executed"]],
                 operation_types |->
                    <<"burn", "cancelburn", "mint", "to_lbr_exchange_rate_update",
                      "preburn", "receivedpayment", "sentpayment", "upgrade", "newepoch",
                      "newblock", "createaccount", "unknown", "sentfee", "receivedfee">>,
                 errors |-> "all_errors",
                 historical_balance_lookup |-> FALSE,
                 timestamp_start_index |-> Some(3),
                 call_methods |-> <<>>,
                 balance_exemptions |-> <<>>]])

\* network_options answers without a gateway call.
NetworkOptions ==
    /\ Ready
    /\ \E n \in NetworkIdentifiers :
          Finish([stage |-> "network_options", network_identifier |-> n],
                 network_options([stage |-> "network_options", network_identifier |-> n]),
                 None, Fresh)

\* The client names the status of a transaction's execution.
VmStatusToStr ==
    /\ Ready
    /\ \E vm_status \in VMStatusViews :
          Finish([stage |-> "vmstatus_to_str", vm_status |-> vm_status],
                 Ok(vmstatus_to_str(vm_status)), None, Fresh)

NextRead ==
    \/ AccountBalance
    \/ AccountBalanceReply
    \/ NetworkStatus
    \/ NetworkStatusReply
    \/ NetworkOptions
    \/ VmStatusToStr
    \/ Forget

SpecRead == Init /\ [][NextRead]_vars

\* C20 (read-through handlers are total): whatever the gateway replies,
\* a successful get_transactions reply with an empty list included,
\* account_balance and network_status end with a response or an ApiError,
\* never with a panic.
C20_ReadThroughTotal ==
    request.stage \in {"account_balance", "network_status"} /\ pc = "done" =>
        response.ok \/ response.error # "panic"

\* The statuses network_options advertised, and those it advertised as
\* successful.
Advertised ==
    {response.value.allow.operation_statuses[i].status :
        i \in 1..Len(response.value.allow.operation_statuses)}
AdvertisedSuccessful ==
    {response.value.allow.operation_statuses[i].status :
        i \in {j \in 1..Len(response.value.allow.operation_statuses) :
                  response.value.allow.operation_statuses[j].successful}}

\* C21 (advertised statuses cover the reportable ones): every string
\* vmstatus_to_str returns for a VM status is an element of
\* vmstatus_all_strs; the statuses network_options advertises are those of
\* vmstatus_all_strs, and exactly "executed" is advertised as successful.
C21_StatusesCovered ==
    /\ request.stage = "vmstatus_to_str" /\ pc = "done" =>
          \E i \in 1..Len(vmstatus_all_strs) : vmstatus_all_strs[i] = response.value
    /\ request.stage = "network_options" /\ pc = "done" /\ response.ok =>
          /\ Advertised = {vmstatus_all_strs[i] : i \in 1..Len(vmstatus_all_strs)}
          /\ AdvertisedSuccessful = {"executed"}
          /\ \A vm_status \in VMStatusViews : vmstatus_to_str(vm_status) \in Advertised

====
